---- MODULE Spec2Model ----
(***************************************************************************)
(* Release content pipeline of the release automation system: the Parser   *)
(* (scripts/parse-release-data.js), the Validator                          *)
(* (scripts/validate-release.js), the Renderer (class ContentProcessor of  *)
(* scripts/process-release-content.js) and the steps of the release        *)
(* workflow (.github/workflows/release.yml) that run them.                 *)
(*                                                                         *)
(* A JavaScript string is a sequence of one-character strings, so that the *)
(* regular expressions of the source are evaluated character by character. *)
(***************************************************************************)
EXTENDS Integers, Sequences, FiniteSets, TLC

\* Longest release body, counted in fragments of BodyFragments.
MaxPieces == 3

\* The number of fragments a release body handed to the ContentProcessor is
\* made of, at most.
MaxRenderPieces == 2

\* Longest release title handed to generateEmailSubject, in characters.
MaxTitleLen == 52

\* The number of entries of a recipient list or of a ticket list handed to a
\* delivery script, at most.
MaxEntries == 3

----------------------------------------------------------------------------
(* JavaScript string primitives used by the scripts.                       *)

\* \s of a JavaScript regular expression (the characters that can occur here).
WS == {" ", "\n", "\t", "\r"}

\* \d of a JavaScript regular expression.
Digits == {"0", "1", "2", "3", "4", "5", "6", "7", "8", "9"}

LowerOf == [A |-> "a", B |-> "b", C |-> "c", D |-> "d", E |-> "e", F |-> "f",
            G |-> "g", H |-> "h", I |-> "i", J |-> "j", K |-> "k", L |-> "l",
            M |-> "m", N |-> "n", O |-> "o", P |-> "p", Q |-> "q", R |-> "r",
            S |-> "s", T |-> "t", U |-> "u", V |-> "v", W |-> "w", X |-> "x",
            Y |-> "y", Z |-> "z"]

UpperCase == DOMAIN LowerOf

Lower(c) == IF c \in UpperCase THEN LowerOf[c] ELSE c

\* String.prototype.toLowerCase
toLowerCase(s) == [i \in 1..Len(s) |-> Lower(s[i])]

\* The literal lit occurs in s at position i (case-sensitive).
LitAt(s, i, lit) ==
    /\ i >= 1
    /\ i + Len(lit) - 1 <= Len(s)
    /\ \A k \in 1..Len(lit) : s[i + k - 1] = lit[k]

\* The same under the i flag; lit is written in lower case.
LitAtI(s, i, lit) ==
    /\ i >= 1
    /\ i + Len(lit) - 1 <= Len(s)
    /\ \A k \in 1..Len(lit) : Lower(s[i + k - 1]) = lit[k]

\* String.prototype.includes
includes(s, lit) == \E i \in 1..(Len(s) + 1) : LitAt(s, i, lit)

\* /lit/i.test(s)
TestI(s, lit) == \E i \in 1..(Len(s) + 1) : LitAtI(s, i, lit)

SetMin(S) == CHOOSE x \in S : \A y \in S : x <= y

SetMax(S) == CHOOSE x \in S : \A y \in S : x >= y

\* String.prototype.trim
trim(s) ==
    LET keep == {i \in 1..Len(s) : s[i] \notin WS}
    IN  IF keep = {} THEN <<>> ELSE SubSeq(s, SetMin(keep), SetMax(keep))

\* String.prototype.split(sep) for a separator of one character.
RECURSIVE SplitCharFrom(_, _, _, _, _)
SplitCharFrom(s, sep, i, cur, acc) ==
    IF i > Len(s) THEN Append(acc, cur)
    ELSE IF s[i] = sep THEN SplitCharFrom(s, sep, i + 1, <<>>, Append(acc, cur))
    ELSE SplitCharFrom(s, sep, i + 1, Append(cur, s[i]), acc)

SplitChar(s, sep) == SplitCharFrom(s, sep, 1, <<>>, <<>>)

\* String.prototype.split(/[c1c2...]+/): a maximal run of characters of Sep
\* is one separator.
RECURSIVE SplitRunsFrom(_, _, _, _, _)
SplitRunsFrom(s, Sep, i, cur, acc) ==
    IF i > Len(s) THEN Append(acc, cur)
    ELSE IF s[i] \in Sep
         THEN IF i > 1 /\ s[i - 1] \in Sep
              THEN SplitRunsFrom(s, Sep, i + 1, <<>>, acc)
              ELSE SplitRunsFrom(s, Sep, i + 1, <<>>, Append(acc, cur))
    ELSE SplitRunsFrom(s, Sep, i + 1, Append(cur, s[i]), acc)

SplitRuns(s, Sep) == SplitRunsFrom(s, Sep, 1, <<>>, <<>>)

\* Array.prototype.map(x => x.trim())
MapTrim(seq) == [i \in 1..Len(seq) |-> trim(seq[i])]

\* Array.prototype.join
RECURSIVE join(_, _)
join(seq, sep) ==
    IF seq = <<>> THEN <<>>
    ELSE IF Len(seq) = 1 THEN seq[1]
    ELSE seq[1] \o sep \o join(Tail(seq), sep)

----------------------------------------------------------------------------
(* scripts/parse-release-data.js                                           *)

\* /^[^\s@]+@[^\s@]+\.[^\s@]+$/
isValidEmail(email) ==
    \E p \in 2..Len(email) :
        /\ email[p] = "@"
        /\ \A q \in 1..Len(email) : q # p => email[q] \notin (WS \cup {"@"})
        /\ \E d \in (p + 2)..(Len(email) - 1) : email[d] = "."

\* A ticket check that forgets the anchored digits: /^PDE-/
PrefixOnlyTicket(ticket) == LitAt(ticket, 1, <<"P","D","E","-">>)

\* /^PDE-\d+$/
isValidJiraTicket(ticket) ==
    /\ Len(ticket) >= 5
    /\ LitAt(ticket, 1, <<"P","D","E","-">>)
    /\ \A k \in 5..Len(ticket) : ticket[k] \in Digits

\* The part "\s*([^\n]+)" of a labelled pattern, tried at position e (the
\* first position after the label). \s* is greedy and gives characters back:
\* the capture starts at the last position p that only white space separates
\* from the label and that holds a character other than a line feed.
CaptureStarts(s, e) ==
    {p \in e..Len(s) : s[p] # "\n" /\ \A q \in e..(p - 1) : s[q] \in WS}

LineEnd(s, p) ==
    LET nl == {q \in p..Len(s) : s[q] = "\n"}
    IN  IF nl = {} THEN Len(s) ELSE SetMin(nl) - 1

\* The positions where /<label>\s*([^\n]+)/i matches, the label being one of
\* the literals lits.
LabelMatches(s, lits) ==
    {i \in 1..Len(s) :
        \E l \in lits : LitAtI(s, i, l) /\ CaptureStarts(s, i + Len(l)) # {}}

\* A match that takes the last occurrence of the label, not the first.
LastLabelMatch(s, lits) ==
    LET at == LabelMatches(s, lits)
    IN  IF at = {} THEN [found |-> FALSE, text |-> <<>>]
        ELSE LET i == SetMax(at)
                 l == CHOOSE x \in lits : LitAtI(s, i, x)
                 p == SetMax(CaptureStarts(s, i + Len(l)))
             IN  [found |-> TRUE, text |-> SubSeq(s, p, LineEnd(s, p))]

\* s.match(/<label>\s*([^\n]+)/i): the leftmost match and its capture.
LabelMatch(s, lits) ==
    LET at == LabelMatches(s, lits)
    IN  IF at = {} THEN [found |-> FALSE, text |-> <<>>]
        ELSE LET i == SetMin(at)
                 l == CHOOSE x \in lits : LitAtI(s, i, x)
                 p == SetMax(CaptureStarts(s, i + Len(l)))
             IN  [found |-> TRUE, text |-> SubSeq(s, p, LineEnd(s, p))]

\* emailPatterns, in the order of the array.
emailPatterns == <<
    {<<"c","u","s","t","o","m","e","r"," ","e","m","a","i","l","(","s",")",":">>},
    {<<"c","u","s","t","o","m","e","r"," ","e","m","a","i","l","s",":">>},
    {<<"e","m","a","i","l","s",":">>},
    {<<"t","o",":">>} >>

\* A filter that gives the whole field up when one entry is malformed.
AllOrNothingEmails(body, lits) ==
    LET match   == LabelMatch(body, lits)
        entries == SelectSeq(MapTrim(SplitRuns(match.text, {","} \cup WS)),
                             LAMBDA e : e # <<>>)
    IN  IF match.found /\ \A i \in 1..Len(entries) : isValidEmail(entries[i])
        THEN entries
        ELSE <<>>

\* The body of the for loop of extractCustomerEmails for one pattern: the
\* valid entries of the captured text, none when the pattern does not match.
EmailsOf(body, lits) ==
    LET match == LabelMatch(body, lits)
    IN  IF match.found
        THEN SelectSeq(MapTrim(SplitRuns(match.text, {","} \cup WS)), isValidEmail)
        ELSE <<>>

RECURSIVE EmailLoop(_, _)
\* A loop that returns on the first pattern that matches, whatever it holds.
FirstMatchDecidesEmails(body, k) ==
    IF k > Len(emailPatterns) THEN <<>>
    ELSE IF LabelMatch(body, emailPatterns[k]).found
         THEN join(EmailsOf(body, emailPatterns[k]), <<",">>)
         ELSE EmailLoop(body, k + 1)

EmailLoop(body, k) ==
    IF k > Len(emailPatterns) THEN <<>>
    ELSE LET emails == EmailsOf(body, emailPatterns[k])
         IN  IF Len(emails) > 0
             THEN join(emails, <<",">>)
             ELSE EmailLoop(body, k + 1)

extractCustomerEmails(body) == EmailLoop(body, 1)

\* ticketPatterns, in the order of the array ("s?" gives two literals).
ticketPatterns == <<
    {<<"j","i","r","a"," ","t","i","c","k","e","t",":">>, <<"j","i","r","a"," ","t","i","c","k","e","t","s",":">>},
    {<<"r","e","l","a","t","e","d"," ","j","i","r","a"," ","t","i","c","k","e","t",":">>, <<"r","e","l","a","t","e","d"," ","j","i","r","a"," ","t","i","c","k","e","t","s",":">>},
    {<<"r","e","l","a","t","e","d"," ","w","o","r","k",":">>},
    {<<"t","i","c","k","e","t",":">>, <<"t","i","c","k","e","t","s",":">>} >>

TicketsOf(body, lits) ==
    LET match == LabelMatch(body, lits)
    IN  IF match.found
        THEN SelectSeq(MapTrim(SplitRuns(match.text, WS)), isValidJiraTicket)
        ELSE <<>>

\* [...body.matchAll(/(PDE-\d+)/g)].map(match => match[1])
RECURSIVE InlineFrom(_, _, _)
InlineFrom(s, i, acc) ==
    IF i > Len(s) THEN acc
    ELSE IF LitAt(s, i, <<"P","D","E","-">>) /\ i + 4 <= Len(s) /\ s[i + 4] \in Digits
         THEN LET stop == {q \in (i + 4)..Len(s) : s[q] \notin Digits}
                  last == IF stop = {} THEN Len(s) ELSE SetMin(stop) - 1
              IN  InlineFrom(s, last + 1, Append(acc, SubSeq(s, i, last)))
         ELSE InlineFrom(s, i + 1, acc)

\* .filter((ticket, index, arr) => arr.indexOf(ticket) === index)
RemoveDuplicates(arr) ==
    LET first(i) == \A j \in 1..(i - 1) : arr[j] # arr[i]
        RECURSIVE From(_)
        From(i) == IF i > Len(arr) THEN <<>>
                   ELSE IF first(i) THEN <<arr[i]>> \o From(i + 1)
                   ELSE From(i + 1)
    IN  From(1)

inlineTickets(body) == RemoveDuplicates(InlineFrom(body, 1, <<>>))

RECURSIVE TicketLoop(_, _)
\* A loop that returns on the first labelled pattern that matches.
FirstLabelDecidesTickets(body, k) ==
    IF k > Len(ticketPatterns) THEN join(inlineTickets(body), <<" ">>)
    ELSE IF LabelMatch(body, ticketPatterns[k]).found
         THEN join(TicketsOf(body, ticketPatterns[k]), <<" ">>)
         ELSE TicketLoop(body, k + 1)

TicketLoop(body, k) ==
    IF k > Len(ticketPatterns) THEN join(inlineTickets(body), <<" ">>)
    ELSE LET tickets == TicketsOf(body, ticketPatterns[k])
         IN  IF Len(tickets) > 0
             THEN join(tickets, <<" ">>)
             ELSE TicketLoop(body, k + 1)

extractJiraTickets(body) == TicketLoop(body, 1)

\* A classification that looks at the title alone.
TypeByTitleOnly(releaseTitle, releaseBody) ==
    LET title == toLowerCase(releaseTitle)
    IN  IF includes(title, <<"m","a","j","o","r">>) THEN "major"
        ELSE IF includes(title, <<"m","i","n","o","r">>) THEN "minor"
        ELSE IF includes(title, <<"b","u","g">>) \/ includes(title, <<"f","i","x">>) THEN "bugfix"
        ELSE IF includes(title, <<"d","o","c">>) THEN "documentation"
        ELSE "update"

determineReleaseType(releaseTitle, releaseBody) ==
    LET title == toLowerCase(releaseTitle)
        body  == toLowerCase(releaseBody)
    IN  IF includes(title, <<"m","a","j","o","r">>) \/ includes(body, <<"m","a","j","o","r"," ","r","e","l","e","a","s","e">>)
        THEN "major"
        ELSE IF includes(title, <<"m","i","n","o","r">>) \/ includes(body, <<"m","i","n","o","r"," ","u","p","d","a","t","e">>)
        THEN "minor"
        ELSE IF \/ includes(title, <<"b","u","g">>)
                \/ includes(title, <<"f","i","x">>)
                \/ includes(body, <<"b","u","g"," ","f","i","x">>)
        THEN "bugfix"
        ELSE IF \/ includes(title, <<"d","o","c">>)
                \/ includes(title, <<"d","o","c","u","m","e","n","t","a","t","i","o","n">>)
                \/ includes(body, <<"d","o","c","u","m","e","n","t","a","t","i","o","n">>)
        THEN "documentation"
        ELSE "update"

\* The part "\s*\n" of a section pattern, tried at position e: \s* is greedy
\* and gives characters back, so the \n is the last line feed that only white
\* space separates from the label.
SectionNewlines(s, e) ==
    {n \in e..Len(s) : s[n] = "\n" /\ \A q \in e..(n - 1) : s[q] \in WS}

\* The lookahead (?=\n##|\n###|\n\n\n|$) at position k.
SectionStop(s, k) ==
    \/ k = Len(s) + 1
    \/ LitAt(s, k, <<"\n","#","#">>)
    \/ LitAt(s, k, <<"\n","#","#","#">>)
    \/ LitAt(s, k, <<"\n","\n","\n">>)

\* s.match(/<label>\s*\n([\s\S]*?)(?=\n##|\n###|\n\n\n|$)/i)
SectionMatch(s, lit) ==
    LET at == {i \in 1..Len(s) :
                  LitAtI(s, i, lit) /\ SectionNewlines(s, i + Len(lit)) # {}}
    IN  IF at = {} THEN [found |-> FALSE, text |-> <<>>]
        ELSE LET i == SetMin(at)
                 n == SetMax(SectionNewlines(s, i + Len(lit)))
                 k == SetMin({j \in (n + 1)..(Len(s) + 1) : SectionStop(s, j)})
             IN  [found |-> TRUE, text |-> SubSeq(s, n + 1, k - 1)]

RECURSIVE SectionLoop(_, _, _)
SectionLoop(body, patterns, k) ==
    IF k > Len(patterns) THEN <<>>
    ELSE LET match == SectionMatch(body, patterns[k])
         IN  IF match.found
             THEN trim(match.text)
             ELSE SectionLoop(body, patterns, k + 1)

businessImpactPatterns ==
    << <<"#","#"," ","b","u","s","i","n","e","s","s"," ","i","m","p","a","c","t">>, <<"b","u","s","i","n","e","s","s"," ","i","m","p","a","c","t",":">>, <<"w","h","a","t","'","s"," ","n","e","w",":">> >>

technicalChangesPatterns ==
    << <<"#","#"," ","t","e","c","h","n","i","c","a","l"," ","c","h","a","n","g","e","s">>, <<"t","e","c","h","n","i","c","a","l"," ","c","h","a","n","g","e","s",":">>, <<"c","h","a","n","g","e","s"," ","m","a","d","e",":">> >>

extractBusinessImpact(body) == SectionLoop(body, businessImpactPatterns, 1)

extractTechnicalChanges(body) == SectionLoop(body, technicalChangesPatterns, 1)

\* filePatterns; the class [ x] under the i flag is a blank, x or X.
filePatterns == {
    <<"["," ","]"," ","u","p","d","a","t","e","d"," ","d","r","a","w","i","n","g","s"," ","(","p","d","f",")">>, <<"[","x","]"," ","u","p","d","a","t","e","d"," ","d","r","a","w","i","n","g","s"," ","(","p","d","f",")">>,
    <<"["," ","]"," ","3","d"," ","m","o","d","e","l","s"," ","(","s","t","e","p","/","s","o","l","i","d","w","o","r","k","s",")">>, <<"[","x","]"," ","3","d"," ","m","o","d","e","l","s"," ","(","s","t","e","p","/","s","o","l","i","d","w","o","r","k","s",")">>,
    <<"["," ","]"," ","d","o","c","u","m","e","n","t","a","t","i","o","n"," ","u","p","d","a","t","e","s">>, <<"[","x","]"," ","d","o","c","u","m","e","n","t","a","t","i","o","n"," ","u","p","d","a","t","e","s">>,
    <<"["," ","]"," ","t","e","s","t"," ","r","e","s","u","l","t","s">>, <<"[","x","]"," ","t","e","s","t"," ","r","e","s","u","l","t","s">>,
    <<"f","i","l","e","s"," ","i","n","c","l","u","d","e","d",":">>, <<"a","t","t","a","c","h","m","e","n","t","s",":">> }

\* A flag that any check box sets, whatever its label.
AnyCheckboxIsFile(body) == TestI(body, <<"["," ","]">>) \/ TestI(body, <<"[","x","]">>)

hasFileAttachments(body) == \E pattern \in filePatterns : TestI(body, pattern)

\* ReleaseDataParser.parse: the values handed to core.setOutput and returned.
parse(releaseTitle, releaseBody) ==
    [ customerEmails   |-> extractCustomerEmails(releaseBody),
      jiraTickets      |-> extractJiraTickets(releaseBody),
      releaseType      |-> determineReleaseType(releaseTitle, releaseBody),
      businessImpact   |-> extractBusinessImpact(releaseBody),
      technicalChanges |-> extractTechnicalChanges(releaseBody),
      hasFiles         |-> hasFileAttachments(releaseBody) ]

----------------------------------------------------------------------------
(* scripts/validate-release.js                                             *)

\* The value of a property that the returned object does not have.
Undefined == [msg |-> "undefined", args |-> <<>>]

validTypes == <<"major", "minor", "bugfix", "documentation", "update">>

InSeq(x, seq) == \E i \in 1..Len(seq) : seq[i] = x

\* ReleaseValidator.isValidEmail: /^[^\s@]+@[^\s@]+\.[^\s@]+$/
ValidatorIsValidEmail(email) ==
    \E p \in 2..Len(email) :
        /\ email[p] = "@"
        /\ \A q \in 1..Len(email) : q # p => email[q] \notin (WS \cup {"@"})
        /\ \E d \in (p + 2)..(Len(email) - 1) : email[d] = "."

\* ReleaseValidator.isValidJiraTicket: /^PDE-\d+$/
ValidatorIsValidJiraTicket(ticket) ==
    /\ Len(ticket) >= 5
    /\ LitAt(ticket, 1, <<"P","D","E","-">>)
    /\ \A k \in 5..Len(ticket) : ticket[k] \in Digits

\* email => !this.isValidEmail(email)
IsInvalidEmail(email) == ~ValidatorIsValidEmail(email)

\* ticket => !this.isValidJiraTicket(ticket)
IsInvalidJiraTicket(ticket) == ~ValidatorIsValidJiraTicket(ticket)

\* An email check that drops the entries of a wrong format and fails only
\* when none is left.
FilteringEmailCheck(customerEmails) ==
    IF customerEmails = <<>>
    THEN [valid |-> FALSE, warning |-> "",
          error |-> [msg |-> "No customer emails found in release", args |-> <<>>]]
    ELSE LET emails        == MapTrim(SplitChar(customerEmails, ","))
             invalidEmails == SelectSeq(emails, IsInvalidEmail)
         IN  IF Len(invalidEmails) = Len(emails)
             THEN [valid |-> FALSE, warning |-> "",
                   error |-> [msg  |-> "Invalid email format(s): ",
                              args |-> invalidEmails]]
             ELSE [valid |-> TRUE, warning |-> "", error |-> Undefined]

validateCustomerEmails(customerEmails) ==
    IF customerEmails = <<>>
    THEN [valid |-> FALSE, warning |-> "",
          error |-> [msg |-> "No customer emails found in release", args |-> <<>>]]
    ELSE LET emails        == MapTrim(SplitChar(customerEmails, ","))
             invalidEmails == SelectSeq(emails, IsInvalidEmail)
         IN  IF Len(invalidEmails) > 0
             THEN [valid |-> FALSE, warning |-> "",
                   error |-> [msg  |-> "Invalid email format(s): ",
                              args |-> invalidEmails]]
             ELSE [valid |-> TRUE, warning |-> "", error |-> Undefined]

\* A ticket check that does not trim the tokens.
UntrimmedTicketCheck(jiraTickets) ==
    IF jiraTickets = <<>>
    THEN [valid |-> TRUE, warning |-> "No Jira tickets referenced",
          error |-> Undefined]
    ELSE LET tickets        == SplitChar(jiraTickets, " ")
             invalidTickets == SelectSeq(tickets, IsInvalidJiraTicket)
         IN  IF Len(invalidTickets) > 0
             THEN [valid |-> FALSE, warning |-> "",
                   error |-> [msg  |-> "Invalid Jira ticket format(s): ",
                              args |-> invalidTickets]]
             ELSE [valid |-> TRUE, warning |-> "", error |-> Undefined]

validateJiraTickets(jiraTickets) ==
    IF jiraTickets = <<>>
    THEN [valid |-> TRUE, warning |-> "No Jira tickets referenced",
          error |-> Undefined]
    ELSE LET tickets        == MapTrim(SplitChar(jiraTickets, " "))
             invalidTickets == SelectSeq(tickets, IsInvalidJiraTicket)
         IN  IF Len(invalidTickets) > 0
             THEN [valid |-> FALSE, warning |-> "",
                   error |-> [msg  |-> "Invalid Jira ticket format(s): ",
                              args |-> invalidTickets]]
             ELSE [valid |-> TRUE, warning |-> "", error |-> Undefined]

validateReleaseType(releaseType) ==
    IF releaseType = ""
    THEN [valid |-> FALSE, warning |-> "",
          error |-> [msg |-> "Release type could not be determined", args |-> <<>>]]
    ELSE IF ~InSeq(releaseType, validTypes)
    THEN [valid |-> FALSE, warning |-> "",
          error |-> [msg |-> "Invalid release type: ", args |-> <<releaseType>>]]
    ELSE [valid |-> TRUE, warning |-> "", error |-> Undefined]

\* A content check that knows the two headings only.
HeadingsOnlyContentCheck(releaseBody) ==
    IF trim(releaseBody) = <<>>
    THEN [valid |-> FALSE, warning |-> "",
          error |-> [msg |-> "Release body is empty", args |-> <<>>]]
    ELSE IF ~TestI(releaseBody, <<"#","#"," ","b","u","s","i","n","e","s","s"," ","i","m","p","a","c","t">>)
            /\ ~TestI(releaseBody, <<"#","#"," ","t","e","c","h","n","i","c","a","l"," ","c","h","a","n","g","e","s">>)
    THEN [valid |-> FALSE, warning |-> "",
          error |-> [msg |-> "Release must contain either Business Impact or Technical Changes section",
                     args |-> <<>>]]
    ELSE [valid |-> TRUE, warning |-> "", error |-> Undefined]

validateReleaseContent(releaseBody) ==
    LET hasBusinessImpact ==
            \/ TestI(releaseBody, <<"#","#"," ","b","u","s","i","n","e","s","s"," ","i","m","p","a","c","t">>)
            \/ TestI(releaseBody, <<"b","u","s","i","n","e","s","s"," ","i","m","p","a","c","t",":">>)
            \/ TestI(releaseBody, <<"w","h","a","t","'","s"," ","n","e","w",":">>)
        hasTechnicalChanges ==
            \/ TestI(releaseBody, <<"#","#"," ","t","e","c","h","n","i","c","a","l"," ","c","h","a","n","g","e","s">>)
            \/ TestI(releaseBody, <<"t","e","c","h","n","i","c","a","l"," ","c","h","a","n","g","e","s",":">>)
            \/ TestI(releaseBody, <<"c","h","a","n","g","e","s"," ","m","a","d","e",":">>)
    IN  IF trim(releaseBody) = <<>>
        THEN [valid |-> FALSE, warning |-> "",
              error |-> [msg |-> "Release body is empty", args |-> <<>>]]
        ELSE IF ~hasBusinessImpact /\ ~hasTechnicalChanges
        THEN [valid |-> FALSE, warning |-> "",
              error |-> [msg |-> "Release must contain either Business Impact or Technical Changes section",
                         args |-> <<>>]]
        ELSE [valid |-> TRUE, warning |-> "", error |-> Undefined]

\* The four checks, in the order of the array of validate().
validations(e) ==
    << validateCustomerEmails(e.CUSTOMER_EMAILS),
       validateJiraTickets(e.JIRA_TICKETS),
       validateReleaseType(e.RELEASE_TYPE),
       validateReleaseContent(e.RELEASE_BODY) >>

\* The for loop of validate(), from the k-th check on.
RECURSIVE ValidateLoop(_, _, _)
\* A loop in which a warning, too, clears isValid.
WarningsInvalidate(vs, k, acc) ==
    IF k > Len(vs) THEN acc
    ELSE LET v  == vs[k]
             a1 == IF ~v.valid
                   THEN [acc EXCEPT !.errors = Append(@, v.error), !.isValid = FALSE]
                   ELSE acc
             a2 == IF v.warning # ""
                   THEN [a1 EXCEPT !.warnings = Append(@, v.warning), !.isValid = FALSE]
                   ELSE a1
         IN  ValidateLoop(vs, k + 1, a2)

ValidateLoop(vs, k, acc) ==
    IF k > Len(vs) THEN acc
    ELSE LET v  == vs[k]
             a1 == IF ~v.valid
                   THEN [acc EXCEPT !.errors = Append(@, v.error), !.isValid = FALSE]
                   ELSE acc
             a2 == IF v.warning # ""
                   THEN [a1 EXCEPT !.warnings = Append(@, v.warning)]
                   ELSE a1
         IN  ValidateLoop(vs, k + 1, a2)

\* ReleaseValidator.validate: the returned object.
validate(e) ==
    ValidateLoop(validations(e), 1,
                 [isValid |-> TRUE, errors |-> <<>>, warnings |-> <<>>])

----------------------------------------------------------------------------
(* scripts/process-release-content.js: class ContentProcessor.             *)

\* An environment variable that is not set reads as undefined.
Unset == <<"undefined">>

\* A constructor that keeps undefined.
KeepUndefined(v) == v

\* process.env.X || ''
OrEmpty(v) == IF v = Unset \/ v = <<>> THEN <<>> ELSE v

\* new ReleaseValidator(): the fields read from process.env.
ReleaseValidator(e) ==
    [ customerEmails |-> OrEmpty(e.CUSTOMER_EMAILS),
      jiraTickets    |-> OrEmpty(e.JIRA_TICKETS),
      releaseType    |-> e.RELEASE_TYPE ]

\* What validate() of the instance this reads when process.env is e: the
\* fields of the instance, and RELEASE_BODY from process.env.
ValidatorInputs(this, e) ==
    [ CUSTOMER_EMAILS |-> this.customerEmails,
      JIRA_TICKETS    |-> this.jiraTickets,
      RELEASE_TYPE    |-> this.releaseType,
      RELEASE_BODY    |-> OrEmpty(e.RELEASE_BODY) ]

\* new ContentProcessor(): the fields read from process.env.
ContentProcessor(e) ==
    [ releaseBody  |-> OrEmpty(e.RELEASE_BODY),
      releaseTitle |-> OrEmpty(e.RELEASE_TITLE),
      releaseType  |-> e.RELEASE_TYPE ]

\* A line of markdown that holds white space only.
IsBlank(line) == \A i \in 1..Len(line) : line[i] \in WS

HeadingDigits == <<"1", "2", "3", "4", "5", "6">>

\* The level of an ATX heading line: one to six "#", then a blank or the end
\* of the line; 0 for any other line.
HeadingLevel(line) ==
    LET n == Cardinality({i \in 1..Len(line) : \A q \in 1..i : line[q] = "#"})
    IN  IF n \in 1..6 /\ (Len(line) = n \/ line[n + 1] \in {" ", "\t"})
        THEN n ELSE 0

\* marked.parse with { breaks: true, gfm: true, headerIds: false }, from the
\* k-th line on, for text made of headings and paragraphs of plain words:
\* a heading line is an <hN> element, a run of other lines is one <p> element
\* whose line ends are <br>, and a blank line ends the paragraph.  para is the
\* content of the paragraph that is open.
RECURSIVE MarkedBlocks(_, _, _)
MarkedBlocks(lines, k, para) ==
    LET close == IF para = <<>> THEN <<>> ELSE <<"<","p",">">> \o para \o <<"<","/","p",">","\n">>
    IN  IF k > Len(lines) THEN close
        ELSE LET line  == lines[k]
                 level == HeadingLevel(line)
             IN  IF IsBlank(line)
                 THEN close \o MarkedBlocks(lines, k + 1, <<>>)
                 ELSE IF level > 0
                 THEN close \o <<"<","h">> \o <<HeadingDigits[level]>> \o <<">">>
                      \o trim(SubSeq(line, level + 1, Len(line)))
                      \o <<"<","/","h">> \o <<HeadingDigits[level]>> \o <<">","\n">>
                      \o MarkedBlocks(lines, k + 1, <<>>)
                 ELSE MarkedBlocks(lines, k + 1,
                          IF para = <<>> THEN line ELSE para \o <<"<","b","r",">">> \o line)

markedParse(markdown) == MarkedBlocks(SplitChar(markdown, "\n"), 1, <<>>)

\* $('h1, h2, h3, h4, h5, h6').addClass('section-header') and
\* $('p').addClass('paragraph'), from position i of the markup on.
RECURSIVE AddClasses(_, _)
AddClasses(html, i) ==
    IF i > Len(html) THEN <<>>
    ELSE IF LitAt(html, i, <<"<","p",">">>)
    THEN <<"<","p"," ","c","l","a","s","s","=","\"","p","a","r","a","g","r","a","p","h","\"",">">> \o AddClasses(html, i + 3)
    ELSE IF /\ LitAt(html, i, <<"<","h">>)
            /\ i + 3 <= Len(html)
            /\ InSeq(html[i + 2], HeadingDigits)
            /\ html[i + 3] = ">"
    THEN <<"<","h">> \o <<html[i + 2]>> \o <<" ","c","l","a","s","s","=","\"","s","e","c","t","i","o","n","-","h","e","a","d","e","r","\"",">">>
         \o AddClasses(html, i + 4)
    ELSE <<html[i]>> \o AddClasses(html, i + 1)

\* ContentProcessor.convertMarkdownToHtml: cheerio.load(html) builds a whole
\* document around the markup, and $.html() serialises that document.
convertMarkdownToHtml(markdown) ==
    <<"<","h","t","m","l",">","<","h","e","a","d",">","<","/","h","e","a","d",">","<","b","o","d","y",">">> \o AddClasses(markedParse(markdown), 1)
    \o <<"<","/","b","o","d","y",">","<","/","h","t","m","l",">">>

\* typeLabels; the pictograph in front of a label is one character.
typeLabels ==
    [ major         |-> <<"rocket">> \o <<" ","M","a","j","o","r"," ","R","e","l","e","a","s","e">>,
      minor         |-> <<"package">> \o <<" ","M","i","n","o","r"," ","U","p","d","a","t","e">>,
      bugfix        |-> <<"bug">> \o <<" ","B","u","g"," ","F","i","x">>,
      documentation |-> <<"books">> \o <<" ","D","o","c","u","m","e","n","t","a","t","i","o","n"," ","U","p","d","a","t","e">>,
      update        |-> <<"clipboard">> \o <<" ","U","p","d","a","t","e">> ]

\* What an object literal inherits from Object.prototype, as a template
\* literal prints it: a function prints as its source, __proto__ is
\* Object.prototype itself.
ObjectPrototype ==
    [ constructor    |-> <<"f","u","n","c","t","i","o","n"," ","O","b","j","e","c","t","(",")"," ","{"," ","[","n","a","t","i","v","e"," ","c","o","d","e","]"," ","}">>,
      toString       |-> <<"f","u","n","c","t","i","o","n"," ","t","o","S","t","r","i","n","g","(",")"," ","{"," ","[","n","a","t","i","v","e"," ","c","o","d","e","]"," ","}">>,
      valueOf        |-> <<"f","u","n","c","t","i","o","n"," ","v","a","l","u","e","O","f","(",")"," ","{"," ","[","n","a","t","i","v","e"," ","c","o","d","e","]"," ","}">>,
      hasOwnProperty |-> <<"f","u","n","c","t","i","o","n"," ","h","a","s","O","w","n","P","r","o","p","e","r","t","y","(",")"," ","{"," ","[","n","a","t","i","v","e"," ","c","o","d","e","]"," ","}">>,
      __proto__      |-> <<"[","o","b","j","e","c","t"," ","O","b","j","e","c","t","]">> ]

\* typeLabels[this.releaseType] || (default): the own properties first, then
\* the inherited ones, which are all truthy.
typeLabel(releaseType) ==
    IF releaseType \in DOMAIN typeLabels THEN typeLabels[releaseType]
    ELSE IF releaseType \in DOMAIN ObjectPrototype
         THEN ObjectPrototype[releaseType]
         ELSE <<"clipboard">> \o <<" ","U","p","d","a","t","e">>

\* A subject whose title is cut after 50 characters.
EllipsisAfterFifty(this) ==
    typeLabel(this.releaseType) \o <<":"," ">> \o
    (IF Len(this.releaseTitle) > 50
     THEN SubSeq(this.releaseTitle, 1, 50) \o <<".",".",".">>
     ELSE this.releaseTitle)

\* ContentProcessor.generateEmailSubject
generateEmailSubject(this) ==
    LET shortTitle == IF Len(this.releaseTitle) > 50
                      THEN SubSeq(this.releaseTitle, 1, 47) \o <<".",".",".">>
                      ELSE this.releaseTitle
    IN  typeLabel(this.releaseType) \o <<":"," ">> \o shortTitle

\* The patterns of extractBusinessImpactForEmail.
businessImpactEmailPatterns ==
    << <<"#","#"," ","b","u","s","i","n","e","s","s"," ","i","m","p","a","c","t">>, <<"b","u","s","i","n","e","s","s"," ","i","m","p","a","c","t",":">>, <<"w","h","a","t","'","s"," ","n","e","w",":">> >>

\* The patterns of extractTechnicalChangesForEmail.
technicalChangesEmailPatterns ==
    << <<"#","#"," ","t","e","c","h","n","i","c","a","l"," ","c","h","a","n","g","e","s">>, <<"t","e","c","h","n","i","c","a","l"," ","c","h","a","n","g","e","s",":">>, <<"c","h","a","n","g","e","s"," ","m","a","d","e",":">> >>

\* The for loop of extractBusinessImpactForEmail and of
\* extractTechnicalChangesForEmail, from the k-th pattern on.
RECURSIVE SectionLoopForEmail(_, _, _)
SectionLoopForEmail(body, patterns, k) ==
    IF k > Len(patterns) THEN <<>>
    ELSE LET match == SectionMatch(body, patterns[k])
         IN  IF match.found
             THEN convertMarkdownToHtml(trim(match.text))
             ELSE SectionLoopForEmail(body, patterns, k + 1)

extractBusinessImpactForEmail(this) ==
    SectionLoopForEmail(this.releaseBody, businessImpactEmailPatterns, 1)

extractTechnicalChangesForEmail(this) ==
    SectionLoopForEmail(this.releaseBody, technicalChangesEmailPatterns, 1)

\* The labels of filePatterns in generateFileList and generateFileListText.
fileLabels ==
    << <<"U","p","d","a","t","e","d"," ","d","r","a","w","i","n","g","s"," ","(","P","D","F",")">>, <<"3","D"," ","m","o","d","e","l","s"," ","(","S","T","E","P","/","S","o","l","i","d","W","o","r","k","s",")">>,
       <<"D","o","c","u","m","e","n","t","a","t","i","o","n"," ","u","p","d","a","t","e","s">>, <<"T","e","s","t"," ","r","e","s","u","l","t","s">> >>

\* /\[[ x]\] <label>/i matches the body.
FilePatternMatches(releaseBody, label) ==
    \E box \in {<<"["," ","]"," ">>, <<"[","x","]"," ">>} : TestI(releaseBody, box \o toLowerCase(label))

\* files: the labels whose pattern matches, in the order of filePatterns.
files(this) ==
    SelectSeq(fileLabels, LAMBDA label : FilePatternMatches(this.releaseBody, label))

\* ContentProcessor.generateFileList
generateFileList(this) ==
    LET matched == files(this)
    IN  IF Len(matched) = 0
        THEN <<"<","p",">","N","o"," ","s","p","e","c","i","f","i","c"," ","f","i","l","e","s"," ","i","n","c","l","u","d","e","d"," ","i","n"," ","t","h","i","s"," ","r","e","l","e","a","s","e",".","<","/","p",">">>
        ELSE <<"<","u","l"," ","c","l","a","s","s","=","\"","f","i","l","e","-","l","i","s","t","\"",">">>
             \o join([i \in 1..Len(matched) |-> <<"<","l","i",">">> \o matched[i] \o <<"<","/","l","i",">">>],
                     <<>>)
             \o <<"<","/","u","l",">">>

\* ContentProcessor.generateFileListText
generateFileListText(this) ==
    LET matched == files(this)
    IN  IF Len(matched) > 0 THEN join(matched, <<","," ">>) ELSE <<"N","o"," ","s","p","e","c","i","f","i","c"," ","f","i","l","e","s">>

\* ContentProcessor.generateEmailBody: the block that is always first.
GreetingBlock(releaseTitle) ==
    <<"\n">>
    \o <<" "," "," "," "," "," ","<","d","i","v"," ","c","l","a","s","s","=","\"","s","e","c","t","i","o","n","\"",">","\n">>
    \o <<" "," "," "," "," "," "," "," ","<","h","1"," ","c","l","a","s","s","=","\"","s","e","c","t","i","o","n","-","h","e","a","d","e","r","\"",">">>
    \o releaseTitle
    \o <<"<","/","h","1",">","\n">>
    \o <<" "," "," "," "," "," "," "," ","<","d","i","v"," ","c","l","a","s","s","=","\"","c","o","n","t","e","n","t","\"",">","\n">>
    \o <<" "," "," "," "," "," "," "," "," "," ","<","p",">","W","e","'","r","e"," ","p","l","e","a","s","e","d"," ","t","o"," ","a","n","n","o","u","n","c","e"," ","t","h","e"," ","r","e","l","e","a","s","e"," ","o","f"," ">>
    \o releaseTitle
    \o <<".","<","/","p",">","\n">>
    \o <<" "," "," "," "," "," "," "," ","<","/","d","i","v",">","\n">>
    \o <<" "," "," "," "," "," ","<","/","d","i","v",">","\n">>
    \o <<" "," "," "," ">>

\* The block appended when businessImpact is not the empty string.
WhatsNewBlock(businessImpact) ==
    <<"\n">>
    \o <<" "," "," "," "," "," "," "," ","<","d","i","v"," ","c","l","a","s","s","=","\"","s","e","c","t","i","o","n","\"",">","\n">>
    \o <<" "," "," "," "," "," "," "," "," "," ","<","h","2"," ","c","l","a","s","s","=","\"","s","e","c","t","i","o","n","-","h","e","a","d","e","r","\"",">","W","h","a","t","'","s"," ","N","e","w","<","/","h","2",">","\n">>
    \o <<" "," "," "," "," "," "," "," "," "," ","<","d","i","v"," ","c","l","a","s","s","=","\"","c","o","n","t","e","n","t","\"",">","\n">>
    \o <<" "," "," "," "," "," "," "," "," "," "," "," ">>
    \o businessImpact
    \o <<"\n">>
    \o <<" "," "," "," "," "," "," "," "," "," ","<","/","d","i","v",">","\n">>
    \o <<" "," "," "," "," "," "," "," ","<","/","d","i","v",">","\n">>
    \o <<" "," "," "," "," "," ">>

\* The block appended when technicalChanges is not the empty string.
TechnicalChangesBlock(technicalChanges) ==
    <<"\n">>
    \o <<" "," "," "," "," "," "," "," ","<","d","i","v"," ","c","l","a","s","s","=","\"","s","e","c","t","i","o","n","\"",">","\n">>
    \o <<" "," "," "," "," "," "," "," "," "," ","<","h","2"," ","c","l","a","s","s","=","\"","s","e","c","t","i","o","n","-","h","e","a","d","e","r","\"",">","T","e","c","h","n","i","c","a","l"," ","C","h","a","n","g","e","s","<","/","h","2",">","\n">>
    \o <<" "," "," "," "," "," "," "," "," "," ","<","d","i","v"," ","c","l","a","s","s","=","\"","c","o","n","t","e","n","t","\"",">","\n">>
    \o <<" "," "," "," "," "," "," "," "," "," "," "," ">>
    \o technicalChanges
    \o <<"\n">>
    \o <<" "," "," "," "," "," "," "," "," "," ","<","/","d","i","v",">","\n">>
    \o <<" "," "," "," "," "," "," "," ","<","/","d","i","v",">","\n">>
    \o <<" "," "," "," "," "," ">>

\* The "Release Files" and "Complete Details" blocks, always appended.
ClosingBlocks(fileList, releaseUrl) ==
    <<"\n">>
    \o <<" "," "," "," "," "," ","<","d","i","v"," ","c","l","a","s","s","=","\"","s","e","c","t","i","o","n","\"",">","\n">>
    \o <<" "," "," "," "," "," "," "," ","<","h","2"," ","c","l","a","s","s","=","\"","s","e","c","t","i","o","n","-","h","e","a","d","e","r","\"",">","R","e","l","e","a","s","e"," ","F","i","l","e","s","<","/","h","2",">","\n">>
    \o <<" "," "," "," "," "," "," "," ","<","d","i","v"," ","c","l","a","s","s","=","\"","c","o","n","t","e","n","t","\"",">","\n">>
    \o <<" "," "," "," "," "," "," "," "," "," ">>
    \o fileList
    \o <<"\n">>
    \o <<" "," "," "," "," "," "," "," ","<","/","d","i","v",">","\n">>
    \o <<" "," "," "," "," "," ","<","/","d","i","v",">","\n">>
    \o <<" "," "," "," "," "," ","\n">>
    \o <<" "," "," "," "," "," ","<","d","i","v"," ","c","l","a","s","s","=","\"","s","e","c","t","i","o","n","\"",">","\n">>
    \o <<" "," "," "," "," "," "," "," ","<","h","2"," ","c","l","a","s","s","=","\"","s","e","c","t","i","o","n","-","h","e","a","d","e","r","\"",">","C","o","m","p","l","e","t","e"," ","D","e","t","a","i","l","s","<","/","h","2",">","\n">>
    \o <<" "," "," "," "," "," "," "," ","<","d","i","v"," ","c","l","a","s","s","=","\"","c","o","n","t","e","n","t","\"",">","\n">>
    \o <<" "," "," "," "," "," "," "," "," "," ","<","p",">","F","o","r"," ","c","o","m","p","l","e","t","e"," ","d","o","c","u","m","e","n","t","a","t","i","o","n"," ","a","n","d"," ","f","i","l","e"," ","d","o","w","n","l","o","a","d","s",","," ","p","l","e","a","s","e"," ","v","i","s","i","t",":","<","/","p",">","\n">>
    \o <<" "," "," "," "," "," "," "," "," "," ","<","p",">","<","a"," ","h","r","e","f","=","\"">>
    \o releaseUrl
    \o <<"\""," ","c","l","a","s","s","=","\"","r","e","l","e","a","s","e","-","l","i","n","k","\"",">","V","i","e","w"," ","f","u","l","l"," ","r","e","l","e","a","s","e"," ","d","o","c","u","m","e","n","t","a","t","i","o","n","<","/","a",">","<","/","p",">","\n">>
    \o <<" "," "," "," "," "," "," "," ","<","/","d","i","v",">","\n">>
    \o <<" "," "," "," "," "," ","<","/","d","i","v",">","\n">>
    \o <<" "," "," "," ">>

\* ContentProcessor.generateEmailBody; e is process.env at the call.
generateEmailBody(this, e) ==
    LET businessImpact   == extractBusinessImpactForEmail(this)
        technicalChanges == extractTechnicalChangesForEmail(this)
        fileList         == generateFileList(this)
        releaseUrl       == OrEmpty(e.RELEASE_URL)
    IN  GreetingBlock(this.releaseTitle)
        \o (IF businessImpact # <<>> THEN WhatsNewBlock(businessImpact) ELSE <<>>)
        \o (IF technicalChanges # <<>>
            THEN TechnicalChangesBlock(technicalChanges) ELSE <<>>)
        \o ClosingBlocks(fileList, releaseUrl)

\* html.replace(/<[^>]*>/g, ''), from position i on.
RECURSIVE StripTags(_, _)
StripTags(html, i) ==
    IF i > Len(html) THEN <<>>
    ELSE LET closing == {j \in (i + 1)..Len(html) : html[j] = ">"}
         IN  IF html[i] = "<" /\ closing # {}
             THEN StripTags(html, SetMin(closing) + 1)
             ELSE <<html[i]>> \o StripTags(html, i + 1)

\* s.replace(/\s+/g, ' '), from position i on.
RECURSIVE CollapseSpaces(_, _)
CollapseSpaces(s, i) ==
    IF i > Len(s) THEN <<>>
    ELSE IF s[i] \notin WS THEN <<s[i]>> \o CollapseSpaces(s, i + 1)
    ELSE IF i > 1 /\ s[i - 1] \in WS THEN CollapseSpaces(s, i + 1)
    ELSE <<" ">> \o CollapseSpaces(s, i + 1)

\* stripHtml of generateJiraComment
stripHtml(html) == trim(CollapseSpaces(StripTags(html, 1), 1))

\* A comment with the "Release Package" line in front of the sections.
PackageLineFirst(this, e) ==
    LET businessImpactText   == stripHtml(extractBusinessImpactForEmail(this))
        technicalChangesText == stripHtml(extractTechnicalChangesForEmail(this))
    IN  <<"rocket">> \o <<" ","R","e","l","e","a","s","e","d"," ","t","o"," ","C","u","s","t","o","m","e","r",":"," ">> \o this.releaseTitle
        \o <<"\n","\n">> \o <<"paperclip">> \o <<" ","R","e","l","e","a","s","e"," ","P","a","c","k","a","g","e",":"," ">>
        \o generateFileListText(this)
        \o <<"\n","\n","B","u","s","i","n","e","s","s"," ","I","m","p","a","c","t",":"," ">> \o businessImpactText
        \o <<"\n","\n","T","e","c","h","n","i","c","a","l"," ","C","h","a","n","g","e","s",":"," ">> \o technicalChangesText
        \o <<"\n","\n">> \o <<"link">> \o <<" ","R","e","l","e","a","s","e"," ","D","e","t","a","i","l","s",":"," ">> \o OrEmpty(e.RELEASE_URL)
        \o <<"\n">> \o <<"email">> \o <<" ","C","u","s","t","o","m","e","r"," ","E","m","a","i","l",":"," ","S","e","n","t"," ","t","o"," ">>
        \o OrEmpty(e.CUSTOMER_EMAILS)

\* ContentProcessor.generateJiraComment; e is process.env at the call.
generateJiraComment(this, e) ==
    LET businessImpact       == extractBusinessImpactForEmail(this)
        technicalChanges     == extractTechnicalChangesForEmail(this)
        releaseUrl           == OrEmpty(e.RELEASE_URL)
        customerEmails       == OrEmpty(e.CUSTOMER_EMAILS)
        businessImpactText   == stripHtml(businessImpact)
        technicalChangesText == stripHtml(technicalChanges)
    IN  <<"rocket">> \o <<" ","R","e","l","e","a","s","e","d"," ","t","o"," ","C","u","s","t","o","m","e","r",":"," ">> \o this.releaseTitle
        \o <<"\n","\n","B","u","s","i","n","e","s","s"," ","I","m","p","a","c","t",":"," ">>
        \o (IF businessImpactText # <<>> THEN businessImpactText
            ELSE <<"N","o","t"," ","s","p","e","c","i","f","i","e","d">>)
        \o <<"\n","\n","T","e","c","h","n","i","c","a","l"," ","C","h","a","n","g","e","s",":"," ">>
        \o (IF technicalChangesText # <<>> THEN technicalChangesText
            ELSE <<"N","o","t"," ","s","p","e","c","i","f","i","e","d">>)
        \o <<"\n","\n">> \o <<"paperclip">> \o <<" ","R","e","l","e","a","s","e"," ","P","a","c","k","a","g","e",":"," ">>
        \o generateFileListText(this)
        \o <<"\n","\n">> \o <<"link">> \o <<" ","R","e","l","e","a","s","e"," ","D","e","t","a","i","l","s",":"," ">> \o releaseUrl
        \o <<"\n">> \o <<"email">> \o <<" ","C","u","s","t","o","m","e","r"," ","E","m","a","i","l",":"," ","S","e","n","t"," ","t","o"," ">>
        \o (IF customerEmails # <<>> THEN customerEmails
            ELSE <<"N","o"," ","e","m","a","i","l","s"," ","s","p","e","c","i","f","i","e","d">>)

\* ContentProcessor.process: the returned object.
process(this, e) ==
    [ emailSubject     |-> generateEmailSubject(this),
      emailBody        |-> generateEmailBody(this, e),
      jiraComment      |-> generateJiraComment(this, e),
      businessImpact   |-> extractBusinessImpactForEmail(this),
      technicalChanges |-> extractTechnicalChangesForEmail(this) ]

----------------------------------------------------------------------------
(* Release records and validator inputs the pipeline is run on.            *)

\* Every concatenation of at most n fragments of P.
RECURSIVE Concat(_, _)
Concat(P, n) ==
    IF n = 0 THEN {<<>>}
    ELSE LET shorter == Concat(P, n - 1)
         IN  shorter \cup {b \o p : b \in shorter, p \in P}

EmailFragments == {
    <<"C","u","s","t","o","m","e","r"," ","E","m","a","i","l","(","s",")",":"," ","a","@","b",".","c","o","m",","," ","c","@","d",".","c","o","m">>,
    <<"C","u","s","t","o","m","e","r"," ","E","m","a","i","l","(","s",")",":"," ","n","/","a">>,
    <<"c","u","s","t","o","m","e","r"," ","e","m","a","i","l","s",":"," ","p","m","@","x",".","i","o">>,
    <<"T","o",":"," ","q","a","@","y",".","o","r","g",","," ","b","a","d","@">>,
    <<","," ","e","@","f",".","n","e","t">>,
    <<"\n">>,
    <<"W","h","a","t","'","s"," ","N","e","w",":","\n","F","a","s","t","e","r","\n">> }

TicketFragments == {
    <<"J","i","r","a"," ","T","i","c","k","e","t","s",":"," ","P","D","E","-","1"," ","P","D","E","-","2">>,
    <<"R","e","l","a","t","e","d"," ","W","o","r","k",":"," ","n","o","n","e">>,
    <<"T","i","c","k","e","t","s",":">>,
    <<" ","P","D","E","-","1">>,
    <<"P","D","E","-","2","3",",">>,
    <<"\n">> }

SectionFragments == {
    <<"#","#"," ","B","u","s","i","n","e","s","s"," ","I","m","p","a","c","t">>,
    <<"B","u","s","i","n","e","s","s"," ","I","m","p","a","c","t",":">>,
    <<"#","#"," ","T","e","c","h","n","i","c","a","l"," ","C","h","a","n","g","e","s">>,
    <<"T","e","c","h","n","i","c","a","l"," ","C","h","a","n","g","e","s",":">>,
    <<"\n">>,
    <<" ">>,
    <<"F","a","s","t","e","r"," ","b","u","i","l","d","s">> }

BodyFragments == {EmailFragments, TicketFragments, SectionFragments}

Bodies == UNION {Concat(P, MaxPieces) : P \in BodyFragments}

DefaultTitle == <<"R","e","l","e","a","s","e"," ","v","2",".","0">>

Titles == {
    <<>>,
    <<"M","a","j","o","r"," ","R","e","l","e","a","s","e"," ","v","2",".","0">>,
    <<"M","i","n","o","r"," ","b","u","g","f","i","x">>,
    <<"B","u","g"," ","F","i","x"," ","R","e","l","e","a","s","e">>,
    <<"H","o","t","f","i","x"," ","7">>,
    <<"D","o","c","s"," ","r","e","f","r","e","s","h">>,
    <<"S","o","m","e"," ","R","e","l","e","a","s","e">> }

TypeBodies == {
    <<>>,
    <<"T","h","i","s"," ","i","s"," ","a"," ","m","a","j","o","r"," ","r","e","l","e","a","s","e">>,
    <<"a"," ","m","a","j","o","r"," ","c","h","a","n","g","e">>,
    <<"M","i","n","o","r"," ","U","p","d","a","t","e"," ","o","f"," ","d","o","c","s">>,
    <<"F","i","x","e","d"," ","s","o","m","e"," ","b","u","g","s">>,
    <<"B","u","g"," ","f","i","x"," ","f","o","r"," ","P","D","E","-","9">>,
    <<"D","o","c","u","m","e","n","t","a","t","i","o","n"," ","o","n","l","y">>,
    <<"S","o","m","e"," ","c","o","n","t","e","n","t">> }

\* Values a caller may hand to the Validator directly.
EmailInputs == {
    <<>>,
    <<"t","e","s","t","@","e","x","a","m","p","l","e",".","c","o","m">>,
    <<"t","e","s","t","1","@","e","x","a","m","p","l","e",".","c","o","m",","," ","t","e","s","t","2","@","e","x","a","m","p","l","e",".","c","o","m">>,
    <<"i","n","v","a","l","i","d","-","e","m","a","i","l">>,
    <<"a","@","b",".","c","o","m",",","b","a","d",","," ","@","x",".","y">>,
    <<"a"," ","b","@","c",".","d","e">> }

TicketInputs == {
    <<>>,
    <<"P","D","E","-","1","2","3">>,
    <<"P","D","E","-","1","2","3"," ","P","D","E","-","4","5","6">>,
    <<"I","N","V","A","L","I","D","-","1","2","3">>,
    <<"P","D","E","-","1"," ","p","d","e","-","2"," ","P","D","E","-">>,
    <<"P","D","E","-","1"," "," ","P","D","E","-","2">>,
    <<"P","D","E","-","1","\t"," ","P","D","E","-","2">> }

TypeInputs == {"", "major", "bugfix", "update", "invalid", "Major"}

DirectBodies == {
    <<>>,
    <<" ","\n"," ">>,
    <<"S","o","m","e"," ","c","o","n","t","e","n","t">>,
    <<"#","#"," ","B","u","s","i","n","e","s","s"," ","I","m","p","a","c","t","\n","S","o","m","e"," ","i","m","p","a","c","t">>,
    <<"C","h","a","n","g","e","s"," ","M","a","d","e",":","\n","x">> }

\* Release bodies handed to the ContentProcessor: sections of headings and
\* plain words, and file check lists.
RenderSectionFragments == {
    <<"#","#"," ","B","u","s","i","n","e","s","s"," ","I","m","p","a","c","t","\n","F","a","s","t","e","r"," ","b","u","i","l","d","s","\n">>,
    <<"#","#"," ","T","e","c","h","n","i","c","a","l"," ","C","h","a","n","g","e","s","\n","N","e","w"," ","A","P","I","\n","\n","\n">>,
    <<"#","#"," ","B","u","s","i","n","e","s","s"," ","I","m","p","a","c","t","\n">>,
    <<"T","e","c","h","n","i","c","a","l"," ","C","h","a","n","g","e","s",":","\n">>,
    <<"#","#"," ","S","o","m","e"," ","S","e","c","t","i","o","n","\n","S","o","m","e"," ","c","o","n","t","e","n","t","\n">>,
    <<"F","a","s","t","e","r"," ","b","u","i","l","d","s">> }

RenderFileFragments == {
    <<"-"," ","[","x","]"," ","T","e","s","t"," ","r","e","s","u","l","t","s","\n">>,
    <<"-"," ","["," ","]"," ","D","o","c","u","m","e","n","t","a","t","i","o","n"," ","u","p","d","a","t","e","s","\n">>,
    <<"-"," ","[","X","]"," ","3","D"," ","m","o","d","e","l","s"," ","(","S","T","E","P","/","S","o","l","i","d","W","o","r","k","s",")","\n">>,
    <<"-"," ","[","x","]"," ","U","p","d","a","t","e","d"," ","d","r","a","w","i","n","g","s","\n">>,
    <<"F","i","l","e","s"," ","I","n","c","l","u","d","e","d",":","\n">>,
    <<"a","t","t","a","c","h","m","e","n","t","s",":"," ","n","o","n","e","\n">>,
    <<"#","#"," ","B","u","s","i","n","e","s","s"," ","I","m","p","a","c","t","\n","F","a","s","t","e","r"," ","b","u","i","l","d","s","\n","\n","\n">> }

RenderBodies ==
    {Unset} \cup UNION {Concat(P, MaxRenderPieces) :
                           P \in {RenderSectionFragments, RenderFileFragments}}

RenderTitles == {Unset, <<"R","e","l","e","a","s","e"," ","v","2",".","0">>}

\* The rest of process.env when the ContentProcessor is used.
RenderEnvs == {
    [RELEASE_TYPE |-> "major", RELEASE_URL |-> <<"h","t","t","p","s",":","/","/","x",".","y","/","r","/","1">>,
     CUSTOMER_EMAILS |-> <<"a","@","b",".","c","o","m",",","c","@","d",".","c","o","m">>],
    [RELEASE_TYPE |-> "", RELEASE_URL |-> Unset, CUSTOMER_EMAILS |-> Unset],
    [RELEASE_TYPE |-> "hotfix", RELEASE_URL |-> <<>>,
     CUSTOMER_EMAILS |-> <<"a","@","b",".","c","o","m">>] }

\* new GmailEmailSender(): the fields read from process.env that make the
\* messages.
GmailEmailSender(e) ==
    [ customerEmails |-> OrEmpty(e.CUSTOMER_EMAILS),
      emailSubject   |-> OrEmpty(e.EMAIL_SUBJECT),
      emailBody      |-> OrEmpty(e.EMAIL_BODY) ]

\* new JiraTicketUpdater(): the fields read from process.env that make the
\* comment and the list of tickets.
JiraTicketUpdater(e) ==
    [ jiraTickets      |-> OrEmpty(e.JIRA_TICKETS),
      releaseTitle     |-> OrEmpty(e.RELEASE_TITLE),
      releaseUrl       |-> OrEmpty(e.RELEASE_URL),
      businessImpact   |-> OrEmpty(e.BUSINESS_IMPACT),
      technicalChanges |-> OrEmpty(e.TECHNICAL_CHANGES),
      customerEmails   |-> OrEmpty(e.CUSTOMER_EMAILS) ]

\* JiraTicketUpdater.isValidJiraTicket: /^PDE-\d+$/
UpdaterIsValidJiraTicket(ticket) ==
    /\ Len(ticket) >= 5
    /\ LitAt(ticket, 1, <<"P","D","E","-">>)
    /\ \A k \in 5..Len(ticket) : ticket[k] \in Digits

\* JiraTicketUpdater.generateFileListText: the patterns have an empty box
\* and are matched against the two snippets.
UpdaterFileListText(this) ==
    LET matched ==
            SelectSeq(fileLabels, LAMBDA label :
                \/ TestI(this.businessImpact, <<"["," ","]"," ">> \o toLowerCase(label))
                \/ TestI(this.technicalChanges, <<"["," ","]"," ">> \o toLowerCase(label)))
    IN  IF Len(matched) > 0 THEN join(matched, <<","," ">>) ELSE <<"N","o"," ","s","p","e","c","i","f","i","c"," ","f","i","l","e","s">>

\* JiraTicketUpdater.generateJiraComment: the texts of the paragraphs of the
\* document, the URL of the inline card among them; the date of the run is
\* one character.
UpdaterJiraComment(this) ==
    << <<"rocket">> \o <<" ","R","e","l","e","a","s","e","d"," ","t","o"," ","C","u","s","t","o","m","e","r",":"," ">> \o this.releaseTitle,
       <<"\n","B","u","s","i","n","e","s","s"," ","I","m","p","a","c","t",":"," ">>
           \o (IF this.businessImpact # <<>> THEN this.businessImpact
               ELSE <<"N","o","t"," ","s","p","e","c","i","f","i","e","d">>),
       <<"\n","T","e","c","h","n","i","c","a","l"," ","C","h","a","n","g","e","s",":"," ">>
           \o (IF this.technicalChanges # <<>> THEN this.technicalChanges
               ELSE <<"N","o","t"," ","s","p","e","c","i","f","i","e","d">>),
       <<"\n">> \o <<"paperclip">> \o <<" ","R","e","l","e","a","s","e"," ","P","a","c","k","a","g","e",":"," ">> \o UpdaterFileListText(this),
       <<"\n">> \o <<"link">> \o <<" ","R","e","l","e","a","s","e"," ","D","e","t","a","i","l","s",":"," ">> \o this.releaseUrl,
       <<"email">> \o <<" ","C","u","s","t","o","m","e","r"," ","E","m","a","i","l",":"," ","S","e","n","t"," ","t","o"," ">>
           \o (IF this.customerEmails # <<>> THEN this.customerEmails
               ELSE <<"N","o"," ","e","m","a","i","l","s"," ","s","p","e","c","i","f","i","e","d">>),
       <<"\n">> \o <<"calendar">> \o <<" ","R","e","l","e","a","s","e"," ","D","a","t","e",":"," ">> \o <<"today">> >>

\* maxRetries = 3, the default of sendEmailWithRetry and updateTicketWithRetry
maxRetries == 3

\* retry.operation({retries: maxRetries, ...}) and the promise the method
\* returns: no attempt made, maxRetries timeouts left, nothing settled.
NewOperation ==
    [attempts |-> 0, timeouts |-> maxRetries, promise |-> "pending", calls |-> 0]

\* resolve(result) or reject(error): a settled promise stays as it is.
Settle(op, how) ==
    [op EXCEPT !.promise = IF op.promise = "pending" THEN how ELSE @,
               !.calls = @ + 1]

\* The message sendEmail hands to Gmail for one recipient.
Message(this, email) ==
    [to |-> email, subject |-> this.emailSubject, body |-> this.emailBody]

\* Recipient lists and ticket lists of at most MaxEntries entries.
RECURSIVE Lists(_, _)
Lists(Pool, n) ==
    IF n = 0 THEN {<<>>}
    ELSE LET shorter == Lists(Pool, n - 1)
         IN  shorter \cup {Append(l, x) : l \in shorter, x \in Pool}

RecipientPool == {<<"a","@","b",".","c","o","m">>, <<"c","@","d",".","c","o","m">>}

\* CUSTOMER_EMAILS as the Parser writes it: addresses joined by commas.
SenderEmails == {Unset} \cup {join(l, <<",">>) : l \in Lists(RecipientPool, MaxEntries)}

TicketPool == {<<"P","D","E","-","1">>, <<"P","D","E","-","2">>, <<"C","A","S","T","-","3">>}

\* JIRA_TICKETS: tokens separated by one space.
UpdaterTickets == {Unset} \cup {join(l, <<" ">>) : l \in Lists(TicketPool, MaxEntries)}

\* How the node process treats a promise rejection nobody handles: the
\* default of Node 15 and later ends the process, --unhandled-rejections=warn
\* in NODE_OPTIONS lets it go on.
NodeOptions == {"", "--unhandled-rejections=warn"}

SenderEnvs ==
    [ CUSTOMER_EMAILS : SenderEmails,
      EMAIL_SUBJECT   : {<<"clipboard">> \o <<" ","U","p","d","a","t","e",":"," ","R","e","l","e","a","s","e"," ","v","2",".","0">>},
      EMAIL_BODY      : {<<"<","p",">","F","a","s","t","e","r"," ","b","u","i","l","d","s","<","/","p",">">>},
      NODE_OPTIONS    : NodeOptions ]

UpdaterEnvs ==
    [ JIRA_TICKETS      : UpdaterTickets,
      RELEASE_TITLE     : {<<"R","e","l","e","a","s","e"," ","v","2",".","0">>},
      RELEASE_URL       : {<<"h","t","t","p","s",":","/","/","x",".","y","/","r","/","1">>},
      BUSINESS_IMPACT   : {<<"F","a","s","t","e","r"," ","b","u","i","l","d","s">>},
      TECHNICAL_CHANGES : {Unset},
      CUSTOMER_EMAILS   : {<<"a","@","b",".","c","o","m">>},
      NODE_OPTIONS      : NodeOptions ]

\* process.env.X || 'unknown' for a status; a variable that is not set
\* reads like the empty string here.
OrUnknown(v) == IF v = "" THEN "unknown" ELSE v

\* new TeamNotifier(): the three statuses read from process.env.
TeamNotifier(e) ==
    [ emailStatus |-> OrUnknown(e.EMAIL_STATUS),
      jiraStatus  |-> OrUnknown(e.JIRA_STATUS),
      driveStatus |-> OrUnknown(e.DRIVE_STATUS) ]

\* statuses.filter(s => s === status).length
StatusCount(statuses, status) ==
    Len(SelectSeq(statuses, LAMBDA x : x = status))

\* An aggregate in which one success outweighs a partial result.
SuccessBeforePartial(this) ==
    LET statuses == <<this.emailStatus, this.jiraStatus, this.driveStatus>>
    IN  IF StatusCount(statuses, "failed") > 0 THEN "failed"
        ELSE IF StatusCount(statuses, "success") > 0 THEN "success"
        ELSE IF StatusCount(statuses, "partial") > 0 THEN "partial"
        ELSE IF StatusCount(statuses, "skipped") = Len(statuses) THEN "skipped"
        ELSE "unknown"

\* TeamNotifier.getOverallStatus
getOverallStatus(this) ==
    LET statuses     == <<this.emailStatus, this.jiraStatus, this.driveStatus>>
        failedCount  == StatusCount(statuses, "failed")
        partialCount == StatusCount(statuses, "partial")
        skippedCount == StatusCount(statuses, "skipped")
        successCount == StatusCount(statuses, "success")
    IN  IF failedCount > 0 THEN "failed"
        ELSE IF partialCount > 0 THEN "partial"
        ELSE IF successCount > 0 THEN "success"
        ELSE IF skippedCount = Len(statuses) THEN "skipped"
        ELSE "unknown"

\* The values a status variable is given: the four statuses the delivery
\* scripts set, and other words.
StatusValues == {"success", "partial", "failed", "skipped", "unknown", "", "Skipped"}

NotifierEnvs ==
    [ EMAIL_STATUS : StatusValues, JIRA_STATUS : StatusValues,
      DRIVE_STATUS : StatusValues ]

\* Release titles of every length up to MaxTitleLen; the character at
\* position i is the last digit of i.
TitleOfLength(n) == [i \in 1..n |-> <<"1","2","3","4","5","6","7","8","9","0">>[((i - 1) % 10) + 1]]

SubjectTitles == {Unset} \cup {TitleOfLength(n) : n \in 0..MaxTitleLen}

\* Values of RELEASE_TYPE: the five types, the empty string, and other words.
SubjectTypes ==
    { "major", "minor", "bugfix", "documentation", "update", "", "hotfix",
      "Major", "constructor", "toString", "__proto__" }

\* The release body of the release type cases.
SubjectBody == <<"#","#"," ","T","e","c","h","n","i","c","a","l"," ","C","h","a","n","g","e","s","\n","S","o","m","e"," ","c","h","a","n","g","e","s">>

\* The values process.env holds for a caller that keeps an instance: each
\* variable has one of the values of its set.
EnvValues ==
    [ CUSTOMER_EMAILS |-> {<<"a","@","b",".","c","o","m">>, Unset},
      JIRA_TICKETS    |-> {<<"P","D","E","-","1">>, <<>>},
      RELEASE_TYPE    |-> {"major", ""},
      RELEASE_BODY    |-> {<<"#","#"," ","B","u","s","i","n","e","s","s"," ","I","m","p","a","c","t","\n","F","a","s","t","e","r"," ","b","u","i","l","d","s","\n">>, <<"S","o","m","e"," ","c","o","n","t","e","n","t">>,
                           <<>>},
      RELEASE_TITLE   |-> {<<"R","e","l","e","a","s","e"," ","v","2",".","0">>},
      RELEASE_URL     |-> {<<"h","t","t","p","s",":","/","/","x",".","y","/","r","/","1">>, Unset} ]

SnapshotEnvs ==
    [ CUSTOMER_EMAILS : EnvValues.CUSTOMER_EMAILS,
      JIRA_TICKETS    : EnvValues.JIRA_TICKETS,
      RELEASE_TYPE    : EnvValues.RELEASE_TYPE,
      RELEASE_BODY    : EnvValues.RELEASE_BODY,
      RELEASE_TITLE   : EnvValues.RELEASE_TITLE,
      RELEASE_URL     : EnvValues.RELEASE_URL ]

----------------------------------------------------------------------------
(* .github/workflows/release.yml, job process-release.                     *)

VARIABLES title, body, feed, pc, outputs, env, result, is_valid, outcome,
          processor, rendered,
          validator, earlier,
          sender,
          queue, cursor, results, operation, wire, report,
          updater, comment,
          notifier, overall

vars == <<title, body, feed, pc, outputs, env, result, is_valid, outcome,
          processor, rendered,
          validator, earlier,
          sender,
          queue, cursor, results, operation, wire, report,
          updater, comment,
          notifier, overall>>

Steps == {"parse-release", "validate", "send-po-email", "send-email", "summary"}

NoOutputs ==
    [ customerEmails |-> <<>>, jiraTickets |-> <<>>, releaseType |-> "",
      businessImpact |-> <<>>, technicalChanges |-> <<>>, hasFiles |-> FALSE ]

NoEnv ==
    [ CUSTOMER_EMAILS |-> <<>>, JIRA_TICKETS |-> <<>>, RELEASE_TYPE |-> "",
      RELEASE_BODY |-> <<>> ]

NoResult == [isValid |-> FALSE, errors |-> <<>>, warnings |-> <<>>]

\* No ContentProcessor has been constructed.
NoProcessor == [releaseBody |-> <<>>, releaseTitle |-> <<>>, releaseType |-> ""]

\* No GmailEmailSender has been constructed.
NoSender == [customerEmails |-> <<>>, emailSubject |-> <<>>, emailBody |-> <<>>]

\* The results object of a delivery loop before the loop.
NoResults == [sent |-> <<>>, failed |-> <<>>]

\* No retry operation has been made.
NoOperation == [attempts |-> 0, timeouts |-> 0, promise |-> "none", calls |-> 0]

\* No output has been set by a delivery script.
NoReport == [status |-> "", done_count |-> 0, failed_count |-> 0, setFailed |-> FALSE]

\* No JiraTicketUpdater has been constructed.
NoUpdater ==
    [ jiraTickets |-> <<>>, releaseTitle |-> <<>>, releaseUrl |-> <<>>,
      businessImpact |-> <<>>, technicalChanges |-> <<>>,
      customerEmails |-> <<>> ]

\* No TeamNotifier has been constructed.
NoNotifier == [emailStatus |-> "", jiraStatus |-> "", driveStatus |-> ""]

\* No ReleaseValidator has been constructed.
NoValidator == [customerEmails |-> <<>>, jiraTickets |-> <<>>, releaseType |-> ""]

\* process() has not returned.
NoRendered ==
    [ emailSubject |-> <<>>, emailBody |-> <<>>, jiraComment |-> <<>>,
      businessImpact |-> <<>>, technicalChanges |-> <<>> ]

\* No instance has returned a result yet.
NoEarlier == [verdict |-> NoResult, content |-> NoRendered]

Init ==
    /\ \/ feed = "parser" /\ title = DefaultTitle /\ body \in Bodies
       \/ feed = "parser" /\ title \in Titles /\ body \in TypeBodies
       \/ feed = "direct" /\ title = <<>> /\ body \in DirectBodies
       \/ feed = "render" /\ title \in RenderTitles /\ body \in RenderBodies
    /\ pc = CASE feed = "parser" -> "parse-release"
               [] feed = "direct" -> "set-env"
               [] feed = "render" -> "integration-parse"
    /\ outputs = NoOutputs
    /\ env = NoEnv
    /\ result = NoResult
    /\ is_valid = ""
    /\ outcome = [s \in Steps |-> "pending"]
    /\ processor = NoProcessor
    /\ rendered = NoRendered
    /\ notifier = NoNotifier
    /\ overall = ""
    /\ updater = NoUpdater
    /\ comment = <<>>
    /\ queue = <<>>
    /\ cursor = 0
    /\ results = NoResults
    /\ operation = NoOperation
    /\ wire = <<>>
    /\ report = NoReport
    /\ sender = NoSender
    /\ validator = NoValidator
    /\ earlier = NoEarlier

\* success(): the status check every step has unless its "if" names another.
success == \A s \in Steps : outcome[s] # "failure"

\* Step "Parse release data": node scripts/parse-release-data.js
ParseRelease ==
    /\ pc = "parse-release"
    /\ outputs' = parse(title, body)
    /\ outcome' = [outcome EXCEPT !["parse-release"] = "success"]
    /\ pc' = "validate"
    /\ UNCHANGED <<title, body, feed, env, result, is_valid,
                   processor, rendered,
                   validator, earlier,
                   sender,
                   queue, cursor, results, operation, wire, report,
                   updater, comment,
                   notifier, overall>>

\* The env block of step "Validate release data".
ValidateEnv ==
    [ CUSTOMER_EMAILS |-> outputs.customerEmails,
      JIRA_TICKETS    |-> outputs.jiraTickets,
      RELEASE_TYPE    |-> outputs.releaseType,
      RELEASE_BODY    |-> body ]

\* core.setOutput('is_valid', isValid ? 'true' : 'false')
IsValidOutput(r) == IF r.isValid THEN "true" ELSE "false"

\* Step "Validate release data": node scripts/validate-release.js; the step
\* fails when validate() calls core.setFailed.
ValidateRelease ==
    /\ pc = "validate"
    /\ IF success
       THEN LET verdict == validate(ValidateEnv)
            IN  /\ env' = ValidateEnv
                /\ result' = verdict
                /\ is_valid' = IsValidOutput(verdict)
                /\ outcome' = [outcome EXCEPT !["validate"] =
                                  IF verdict.isValid THEN "success" ELSE "failure"]
       ELSE /\ outcome' = [outcome EXCEPT !["validate"] = "skipped"]
            /\ UNCHANGED <<env, result, is_valid>>
    /\ pc' = "send-po-email"
    /\ UNCHANGED <<title, body, feed, outputs,
                   processor, rendered,
                   validator, earlier,
                   sender,
                   queue, cursor, results, operation, wire, report,
                   updater, comment,
                   notifier, overall>>

\* A delivery step that lost its "if".
AlwaysDeliver == TRUE

\* if: steps.validate.outputs.is_valid == 'true' (with the implied success())
DeliveryCondition == success /\ is_valid = "true"

\* Step "Send PO release email": the command line ends in "|| echo", so the
\* step succeeds whenever it runs.
SendPoEmail ==
    /\ pc = "send-po-email"
    /\ outcome' = [outcome EXCEPT !["send-po-email"] =
                      IF DeliveryCondition THEN "success" ELSE "skipped"]
    /\ pc' = "send-email"
    /\ UNCHANGED <<title, body, feed, outputs, env, result, is_valid,
                   processor, rendered,
                   validator, earlier,
                   sender,
                   queue, cursor, results, operation, wire, report,
                   updater, comment,
                   notifier, overall>>

\* The env block of step "Send email to PO", which sets neither
\* EMAIL_SUBJECT nor EMAIL_BODY.
SendEmailEnv ==
    [ CUSTOMER_EMAILS |-> outputs.customerEmails,
      RELEASE_TITLE   |-> title,
      EMAIL_SUBJECT   |-> Unset,
      EMAIL_BODY      |-> Unset ]

\* Step "Send email to PO": node scripts/send-customer-emails.js constructs
\* a GmailEmailSender from the environment of the step and sends; the step
\* may fail.
SendEmail ==
    /\ pc = "send-email"
    /\ \E exit \in {"success", "failure"} :
          outcome' = [outcome EXCEPT !["send-email"] =
                         IF DeliveryCondition THEN exit ELSE "skipped"]
    /\ sender' = IF DeliveryCondition THEN GmailEmailSender(SendEmailEnv)
                 ELSE sender
    /\ pc' = "summary"
    /\ UNCHANGED <<title, body, feed, outputs, env, result, is_valid,
                   processor, rendered,
                   validator, earlier,
                   queue, cursor, results, operation, wire, report,
                   updater, comment,
                   notifier, overall>>

\* Step "Create summary report": if: always()
Summary ==
    /\ pc = "summary"
    /\ outcome' = [outcome EXCEPT !["summary"] = "success"]
    /\ pc' = "done"
    /\ UNCHANGED <<title, body, feed, outputs, env, result, is_valid,
                   processor, rendered,
                   validator, earlier,
                   sender,
                   queue, cursor, results, operation, wire, report,
                   updater, comment,
                   notifier, overall>>

\* A caller that feeds the Validator directly sets process.env first.
SetEnv ==
    /\ pc = "set-env"
    /\ \E e \in EmailInputs, t \in TicketInputs, r \in TypeInputs :
          env' = [ CUSTOMER_EMAILS |-> e, JIRA_TICKETS |-> t,
                   RELEASE_TYPE |-> r, RELEASE_BODY |-> body ]
    /\ pc' = "call-validate"
    /\ UNCHANGED <<title, body, feed, outputs, result, is_valid, outcome,
                   processor, rendered,
                   validator, earlier,
                   sender,
                   queue, cursor, results, operation, wire, report,
                   updater, comment,
                   notifier, overall>>

\* new ReleaseValidator().validate() on the values of process.env
CallValidate ==
    /\ pc = "call-validate"
    /\ LET verdict == validate(env)
       IN  result' = verdict /\ is_valid' = IsValidOutput(verdict)
    /\ pc' = "done"
    /\ UNCHANGED <<title, body, feed, outputs, env, outcome,
                   processor, rendered,
                   validator, earlier,
                   sender,
                   queue, cursor, results, operation, wire, report,
                   updater, comment,
                   notifier, overall>>

\* A caller that runs the scripts in one process: new ReleaseDataParser()
\* and parse() on the release record.
IntegrationParse ==
    /\ pc = "integration-parse"
    /\ outputs' = parse(OrEmpty(title), OrEmpty(body))
    /\ pc' = "new-processor"
    /\ UNCHANGED <<title, body, feed, env, result, is_valid, outcome,
                   processor, rendered,
                   validator, earlier,
                   sender,
                   queue, cursor, results, operation, wire, report,
                   updater, comment,
                   notifier, overall>>

\* process.env is set and new ContentProcessor() reads it.
NewContentProcessor ==
    /\ pc = "new-processor"
    /\ \E e \in RenderEnvs :
          LET environment == [ RELEASE_TITLE   |-> title,
                               RELEASE_BODY    |-> body,
                               RELEASE_TYPE    |-> e.RELEASE_TYPE,
                               RELEASE_URL     |-> e.RELEASE_URL,
                               CUSTOMER_EMAILS |-> e.CUSTOMER_EMAILS ]
          IN  /\ env' = environment
              /\ processor' = ContentProcessor(environment)
    /\ pc' = "process"
    /\ UNCHANGED <<title, body, feed, outputs, result, is_valid, outcome,
                   rendered,
                   validator, earlier,
                   sender,
                   queue, cursor, results, operation, wire, report,
                   updater, comment,
                   notifier, overall>>

\* processor.process()
CallProcess ==
    /\ pc = "process"
    /\ rendered' = process(processor, env)
    /\ pc' = "done"
    /\ UNCHANGED <<title, body, feed, outputs, env, result, is_valid, outcome,
                   processor,
                   validator, earlier,
                   sender,
                   queue, cursor, results, operation, wire, report,
                   updater, comment,
                   notifier, overall>>

\* A release type case of the local test runner: the environment is set
\* and new ContentProcessor() reads it.
SetTestCase ==
    /\ pc = "test-case"
    /\ \E t \in SubjectTypes :
          LET environment == [ RELEASE_TITLE   |-> title,
                               RELEASE_BODY    |-> body,
                               RELEASE_TYPE    |-> t,
                               RELEASE_URL     |-> Unset,
                               CUSTOMER_EMAILS |-> Unset ]
          IN  /\ env' = environment
              /\ processor' = ContentProcessor(environment)
    /\ pc' = "process"
    /\ UNCHANGED <<title, body, feed, outputs, result, is_valid, outcome,
                   rendered,
                   validator, earlier,
                   sender,
                   queue, cursor, results, operation, wire, report,
                   updater, comment,
                   notifier, overall>>

Next ==
    \/ ParseRelease
    \/ ValidateRelease
    \/ SendPoEmail
    \/ SendEmail
    \/ Summary
    \/ SetEnv
    \/ CallValidate
    \/ IntegrationParse
    \/ NewContentProcessor
    \/ CallProcess

Spec == Init /\ [][Next]_vars

\* A caller keeps instances while process.env changes.  Two instances are
\* constructed under one environment, so their fields are equal and one value
\* stands for both: the first is called at once, the second after the
\* environment has changed.
NewReleaseValidators ==
    /\ pc = "construct" /\ feed = "validator-snapshot"
    /\ validator' = ReleaseValidator(env)
    /\ pc' = "first-call"
    /\ UNCHANGED <<title, body, feed, outputs, env, result, is_valid, outcome,
                   processor, rendered, earlier,
                   sender,
                   queue, cursor, results, operation, wire, report,
                   updater, comment,
                   notifier, overall>>

NewContentProcessors ==
    /\ pc = "construct" /\ feed = "renderer-snapshot"
    /\ processor' = ContentProcessor(env)
    /\ pc' = "first-call"
    /\ UNCHANGED <<title, body, feed, outputs, env, result, is_valid, outcome,
                   rendered, validator, earlier,
                   sender,
                   queue, cursor, results, operation, wire, report,
                   updater, comment,
                   notifier, overall>>

\* validate() of the first instance.
FirstValidate ==
    /\ pc = "first-call" /\ feed = "validator-snapshot"
    /\ earlier' = [earlier EXCEPT
                      !.verdict = validate(ValidatorInputs(validator, env))]
    /\ pc' = "change-env"
    /\ UNCHANGED <<title, body, feed, outputs, env, result, is_valid, outcome,
                   processor, rendered, validator,
                   sender,
                   queue, cursor, results, operation, wire, report,
                   updater, comment,
                   notifier, overall>>

\* process() of the first instance.
FirstProcess ==
    /\ pc = "first-call" /\ feed = "renderer-snapshot"
    /\ earlier' = [earlier EXCEPT !.content = process(processor, env)]
    /\ pc' = "change-env"
    /\ UNCHANGED <<title, body, feed, outputs, env, result, is_valid, outcome,
                   processor, rendered, validator,
                   sender,
                   queue, cursor, results, operation, wire, report,
                   updater, comment,
                   notifier, overall>>

\* process.env.K = v, for one variable K.
ChangeEnvironment ==
    /\ pc = "change-env"
    /\ \E k \in DOMAIN EnvValues : \E v \in EnvValues[k] :
          env' = [env EXCEPT ![k] = v]
    /\ pc' = "second-call"
    /\ UNCHANGED <<title, body, feed, outputs, result, is_valid, outcome,
                   processor, rendered, validator, earlier,
                   sender,
                   queue, cursor, results, operation, wire, report,
                   updater, comment,
                   notifier, overall>>

\* validate() of the second instance.
SecondValidate ==
    /\ pc = "second-call" /\ feed = "validator-snapshot"
    /\ LET verdict == validate(ValidatorInputs(validator, env))
       IN  result' = verdict /\ is_valid' = IsValidOutput(verdict)
    /\ pc' = "done"
    /\ UNCHANGED <<title, body, feed, outputs, env, outcome,
                   processor, rendered, validator, earlier,
                   sender,
                   queue, cursor, results, operation, wire, report,
                   updater, comment,
                   notifier, overall>>

\* process() of the second instance.
SecondProcess ==
    /\ pc = "second-call" /\ feed = "renderer-snapshot"
    /\ rendered' = process(processor, env)
    /\ pc' = "done"
    /\ UNCHANGED <<title, body, feed, outputs, env, result, is_valid, outcome,
                   processor, validator, earlier,
                   sender,
                   queue, cursor, results, operation, wire, report,
                   updater, comment,
                   notifier, overall>>

SnapshotInit ==
    /\ feed \in {"validator-snapshot", "renderer-snapshot"}
    /\ env \in SnapshotEnvs
    /\ title = env.RELEASE_TITLE
    /\ body = env.RELEASE_BODY
    /\ pc = "construct"
    /\ outputs = NoOutputs
    /\ result = NoResult
    /\ is_valid = ""
    /\ outcome = [s \in Steps |-> "pending"]
    /\ processor = NoProcessor
    /\ rendered = NoRendered
    /\ notifier = NoNotifier
    /\ overall = ""
    /\ updater = NoUpdater
    /\ comment = <<>>
    /\ queue = <<>>
    /\ cursor = 0
    /\ results = NoResults
    /\ operation = NoOperation
    /\ wire = <<>>
    /\ report = NoReport
    /\ sender = NoSender
    /\ validator = NoValidator
    /\ earlier = NoEarlier

SnapshotNext ==
    \/ NewReleaseValidators
    \/ NewContentProcessors
    \/ FirstValidate
    \/ FirstProcess
    \/ ChangeEnvironment
    \/ SecondValidate
    \/ SecondProcess

SnapshotSpec == SnapshotInit /\ [][SnapshotNext]_vars

\* node scripts/send-customer-emails.js: new GmailEmailSender() and the
\* start of sendCustomerEmails(), up to the for loop.
SendCustomerEmails ==
    /\ pc = "send-customer-emails"
    /\ LET this == GmailEmailSender(env)
       IN  /\ sender' = this
           /\ IF this.customerEmails = <<>>
              THEN /\ report' = [report EXCEPT !.status = "skipped"]
                   /\ pc' = "exited"
                   /\ UNCHANGED <<queue, cursor, results>>
              ELSE /\ queue' = MapTrim(SplitChar(this.customerEmails, ","))
                   /\ cursor' = 1
                   /\ results' = [sent |-> <<>>, failed |-> <<>>]
                   /\ pc' = "for-email"
                   /\ UNCHANGED report
    /\ UNCHANGED <<title, body, feed, outputs, env, result, is_valid, outcome,
                   processor, rendered, validator, earlier, operation, wire,
                   updater, comment,
                   notifier, overall>>

\* for (const email of emails): the next recipient, for whom
\* sendEmailWithRetry makes a retry operation and a promise.
ForEmail ==
    /\ pc = "for-email" /\ cursor <= Len(queue)
    /\ operation' = NewOperation
    /\ pc' = "attempt"
    /\ UNCHANGED <<title, body, feed, outputs, env, result, is_valid, outcome,
                   processor, rendered, validator, earlier, sender,
                   queue, cursor, results, wire, report,
                   updater, comment,
                   notifier, overall>>

\* The callback of operation.attempt when sendEmail (addCommentToTicket in
\* the ticket updater) returns: the message is with the service, and
\* resolve(result).
AttemptSucceeds ==
    /\ pc = "attempt"
    /\ wire' = Append(wire, IF feed = "sender"
                            THEN Message(sender, queue[cursor])
                            ELSE [to |-> queue[cursor], comment |-> comment])
    /\ operation' = Settle([operation EXCEPT !.attempts = @ + 1], "resolved")
    /\ pc' = "await"
    /\ UNCHANGED <<title, body, feed, outputs, env, result, is_valid, outcome,
                   processor, rendered, validator, earlier, sender,
                   queue, cursor, results, report,
                   updater, comment,
                   notifier, overall>>

\* The callback of operation.attempt when sendEmail (addCommentToTicket)
\* throws.  operation.retry
\* returns true while a timeout is left and has then set the timer of the
\* next attempt; the log line that follows calls operation.timeouts, which a
\* RetryOperation does not have, so the callback throws a TypeError that
\* nobody handles.  With no timeout left, reject(operation.mainError()).
AttemptFails ==
    /\ pc = "attempt"
    /\ IF operation.timeouts > 0
       THEN /\ operation' = [operation EXCEPT !.attempts = @ + 1,
                                              !.timeouts = @ - 1]
            /\ pc' = IF env.NODE_OPTIONS = "--unhandled-rejections=warn"
                     THEN "attempt" ELSE "crashed"
       ELSE /\ operation' = Settle([operation EXCEPT !.attempts = @ + 1],
                                   "rejected")
            /\ pc' = "await"
    /\ UNCHANGED <<title, body, feed, outputs, env, result, is_valid, outcome,
                   processor, rendered, validator, earlier, sender,
                   queue, cursor, results, wire, report,
                   updater, comment,
                   notifier, overall>>

\* await this.sendEmailWithRetry(emailData) in the try block of the loop:
\* results.sent.push, or results.failed.push in the catch block.
AwaitSend ==
    /\ pc = "await" /\ feed = "sender"
    /\ results' = IF operation.promise = "resolved"
                  THEN [results EXCEPT !.sent = Append(@, queue[cursor])]
                  ELSE [results EXCEPT !.failed = Append(@, queue[cursor])]
    /\ cursor' = cursor + 1
    /\ pc' = "for-email"
    /\ UNCHANGED <<title, body, feed, outputs, env, result, is_valid, outcome,
                   processor, rendered, validator, earlier, sender,
                   queue, operation, wire, report,
                   updater, comment,
                   notifier, overall>>

\* After the loop of sendCustomerEmails: the outputs, and the Error that the
\* main block turns into core.setFailed.
EmailsDone ==
    /\ pc = "for-email" /\ cursor > Len(queue)
    /\ report' = [ status       |-> IF results.failed = <<>> THEN "success"
                                    ELSE "partial",
                   done_count   |-> Len(results.sent),
                   failed_count |-> Len(results.failed),
                   setFailed    |-> results.failed # <<>> ]
    /\ pc' = "exited"
    /\ UNCHANGED <<title, body, feed, outputs, env, result, is_valid, outcome,
                   processor, rendered, validator, earlier, sender,
                   queue, cursor, results, operation, wire,
                   updater, comment,
                   notifier, overall>>

\* node scripts/update-jira-tickets.js: new JiraTicketUpdater() and the
\* start of updateJiraTickets(), up to the for loop.
UpdateJiraTickets ==
    /\ pc = "update-jira-tickets"
    /\ LET this         == JiraTicketUpdater(env)
           tickets      == MapTrim(SplitChar(this.jiraTickets, " "))
           validTickets == SelectSeq(tickets, UpdaterIsValidJiraTicket)
       IN  /\ updater' = this
           /\ IF this.jiraTickets = <<>> \/ Len(validTickets) = 0
              THEN /\ report' = [report EXCEPT !.status = "skipped"]
                   /\ pc' = "exited"
                   /\ UNCHANGED <<queue, cursor, results, comment>>
              ELSE /\ comment' = UpdaterJiraComment(this)
                   /\ queue' = validTickets
                   /\ cursor' = 1
                   /\ results' = [updated |-> <<>>, failed |-> <<>>]
                   /\ pc' = "for-ticket"
                   /\ UNCHANGED report
    /\ UNCHANGED <<title, body, feed, outputs, env, result, is_valid, outcome,
                   processor, rendered, validator, earlier, sender,
                   operation, wire,
                   notifier, overall>>

\* for (const ticketId of validTickets): validateTicket finds the ticket,
\* and updateTicketWithRetry makes a retry operation and a promise.
TicketFound ==
    /\ pc = "for-ticket" /\ cursor <= Len(queue)
    /\ operation' = NewOperation
    /\ pc' = "attempt"
    /\ UNCHANGED <<title, body, feed, outputs, env, result, is_valid, outcome,
                   processor, rendered, validator, earlier, sender,
                   queue, cursor, results, wire, report, updater, comment,
                   notifier, overall>>

\* validateTicket throws (not found, no permission, or no answer): the catch
\* block of the loop puts the ticket in results.failed.
TicketNotFound ==
    /\ pc = "for-ticket" /\ cursor <= Len(queue)
    /\ results' = [results EXCEPT !.failed = Append(@, queue[cursor])]
    /\ cursor' = cursor + 1
    /\ UNCHANGED <<title, body, feed, pc, outputs, env, result, is_valid,
                   outcome, processor, rendered, validator, earlier, sender,
                   queue, operation, wire, report, updater, comment,
                   notifier, overall>>

\* await this.updateTicketWithRetry(ticketId, comment) in the try block of
\* the loop: results.updated.push, or results.failed.push in the catch block.
AwaitUpdate ==
    /\ pc = "await" /\ feed = "updater"
    /\ results' = IF operation.promise = "resolved"
                  THEN [results EXCEPT !.updated = Append(@, queue[cursor])]
                  ELSE [results EXCEPT !.failed = Append(@, queue[cursor])]
    /\ cursor' = cursor + 1
    /\ pc' = "for-ticket"
    /\ UNCHANGED <<title, body, feed, outputs, env, result, is_valid, outcome,
                   processor, rendered, validator, earlier, sender,
                   queue, operation, wire, report, updater, comment,
                   notifier, overall>>

\* After the loop of updateJiraTickets: the outputs, and the Error that the
\* main block turns into core.setFailed.
TicketsDone ==
    /\ pc = "for-ticket" /\ cursor > Len(queue)
    /\ report' = [ status       |-> IF results.failed = <<>> THEN "success"
                                    ELSE "partial",
                   done_count   |-> Len(results.updated),
                   failed_count |-> Len(results.failed),
                   setFailed    |-> results.failed # <<>> ]
    /\ pc' = "exited"
    /\ UNCHANGED <<title, body, feed, outputs, env, result, is_valid, outcome,
                   processor, rendered, validator, earlier, sender,
                   queue, cursor, results, operation, wire, updater, comment,
                   notifier, overall>>

DeliveryInit ==
    /\ \/ feed = "sender" /\ env \in SenderEnvs /\ pc = "send-customer-emails"
       \/ feed = "updater" /\ env \in UpdaterEnvs /\ pc = "update-jira-tickets"
    /\ title = <<>>
    /\ body = <<>>
    /\ outputs = NoOutputs
    /\ result = NoResult
    /\ is_valid = ""
    /\ outcome = [s \in Steps |-> "pending"]
    /\ processor = NoProcessor
    /\ rendered = NoRendered
    /\ notifier = NoNotifier
    /\ overall = ""
    /\ updater = NoUpdater
    /\ comment = <<>>
    /\ validator = NoValidator
    /\ earlier = NoEarlier
    /\ sender = NoSender
    /\ queue = <<>>
    /\ cursor = 0
    /\ results = NoResults
    /\ operation = NoOperation
    /\ wire = <<>>
    /\ report = NoReport

DeliveryNext ==
    \/ SendCustomerEmails
    \/ ForEmail
    \/ AttemptSucceeds
    \/ AttemptFails
    \/ AwaitSend
    \/ EmailsDone
    \/ UpdateJiraTickets
    \/ TicketFound
    \/ TicketNotFound
    \/ AwaitUpdate
    \/ TicketsDone

DeliverySpec == DeliveryInit /\ [][DeliveryNext]_vars

\* The main block of the team notification script: new TeamNotifier().
NewTeamNotifier ==
    /\ pc = "new-notifier"
    /\ notifier' = TeamNotifier(env)
    /\ pc' = "send-notifications"
    /\ UNCHANGED <<title, body, feed, outputs, env, result, is_valid, outcome,
                   processor, rendered, validator, earlier, sender,
                   queue, cursor, results, operation, wire, report,
                   updater, comment, overall>>

\* sendNotifications(): the status report, whose summary holds
\* getOverallStatus(), goes to the output overall_status.
SendNotifications ==
    /\ pc = "send-notifications"
    /\ overall' = getOverallStatus(notifier)
    /\ pc' = "notified"
    /\ UNCHANGED <<title, body, feed, outputs, env, result, is_valid, outcome,
                   processor, rendered, validator, earlier, sender,
                   queue, cursor, results, operation, wire, report,
                   updater, comment, notifier>>

NotifierInit ==
    /\ feed = "notifier"
    /\ env \in NotifierEnvs
    /\ pc = "new-notifier"
    /\ title = <<>>
    /\ body = <<>>
    /\ outputs = NoOutputs
    /\ result = NoResult
    /\ is_valid = ""
    /\ outcome = [s \in Steps |-> "pending"]
    /\ processor = NoProcessor
    /\ rendered = NoRendered
    /\ validator = NoValidator
    /\ earlier = NoEarlier
    /\ sender = NoSender
    /\ queue = <<>>
    /\ cursor = 0
    /\ results = NoResults
    /\ operation = NoOperation
    /\ wire = <<>>
    /\ report = NoReport
    /\ updater = NoUpdater
    /\ comment = <<>>
    /\ notifier = NoNotifier
    /\ overall = ""

NotifierNext ==
    \/ NewTeamNotifier
    \/ SendNotifications

NotifierSpec == NotifierInit /\ [][NotifierNext]_vars

\* The release type cases: a title of any length and any release type.
SubjectInit ==
    /\ feed = "subject"
    /\ title \in SubjectTitles
    /\ body = SubjectBody
    /\ pc = "test-case"
    /\ outputs = NoOutputs
    /\ env = NoEnv
    /\ result = NoResult
    /\ is_valid = ""
    /\ outcome = [s \in Steps |-> "pending"]
    /\ processor = NoProcessor
    /\ rendered = NoRendered
    /\ notifier = NoNotifier
    /\ overall = ""
    /\ updater = NoUpdater
    /\ comment = <<>>
    /\ queue = <<>>
    /\ cursor = 0
    /\ results = NoResults
    /\ operation = NoOperation
    /\ wire = <<>>
    /\ report = NoReport
    /\ sender = NoSender
    /\ validator = NoValidator
    /\ earlier = NoEarlier

SubjectNext ==
    \/ SetTestCase
    \/ CallProcess

SubjectSpec == SubjectInit /\ [][SubjectNext]_vars

----------------------------------------------------------------------------
(* Properties of the Validator and of the workflow.                        *)

\* parse() has run on the release record.
Parsed == outcome["parse-release"] = "success"

\* validate() has run on env.
Validated == is_valid # ""

\* parse() has just returned: its facts are in outputs, which no later step
\* changes.
ParseReturned == Parsed /\ pc = "validate"

\* validate() has just returned: its verdict is in result, which no later
\* step changes.
ValidateReturned ==
    Validated /\ (pc = "send-po-email" \/ (feed = "direct" /\ pc = "done"))

Range(seq) == {seq[i] : i \in 1..Len(seq)}

DeliverySteps == {"send-po-email", "send-email"}

HasRun(s) == outcome[s] \in {"success", "failure"}

\* The errors of the failing checks, in the order of the checks.
FailingErrors(vs) ==
    LET failing == SelectSeq(vs, LAMBDA v : ~v.valid)
    IN  [i \in 1..Len(failing) |-> failing[i].error]

\* C1: validate() returns isValid = TRUE exactly when the email, ticket,
\* release-type and content checks are all valid, which is exactly when the
\* returned errors are empty; the errors are one error per failing check, in
\* the order of the checks, and a warning does not clear isValid.
C1_VerdictIsConjunction ==
    ValidateReturned =>
        LET vs == validations(env)
        IN  /\ result.isValid = (\A k \in 1..4 : vs[k].valid)
            /\ result.isValid = (result.errors = <<>>)
            /\ result.errors = FailingErrors(vs)
            /\ Len(result.errors) = Cardinality({k \in 1..4 : ~vs[k].valid})
            /\ \A i \in 1..Len(result.errors) : result.errors[i] # Undefined
            /\ (result.errors = <<>> /\ result.warnings # <<>> => result.isValid)

\* C1 witness: two checks fail and the ticket check warns, in one verdict.
C1_Witness ==
    /\ ValidateReturned
    /\ Len(result.errors) >= 2
    /\ result.warnings # <<>>
    /\ ~result.isValid

ParserErrors == {
    "No customer emails found in release",
    "Release body is empty",
    "Release must contain either Business Impact or Technical Changes section" }

\* The body holds one of the markers validateReleaseContent looks for.
HasMarker(b) ==
    \E m \in { <<"#","#"," ","b","u","s","i","n","e","s","s"," ","i","m","p","a","c","t">>, <<"b","u","s","i","n","e","s","s"," ","i","m","p","a","c","t",":">>, <<"w","h","a","t","'","s"," ","n","e","w",":">>,
               <<"#","#"," ","t","e","c","h","n","i","c","a","l"," ","c","h","a","n","g","e","s">>, <<"t","e","c","h","n","i","c","a","l"," ","c","h","a","n","g","e","s",":">>, <<"c","h","a","n","g","e","s"," ","m","a","d","e",":">> } :
        TestI(b, m)

\* The capture of /<label>\s*([^\n]+)/i for the occurrence of the label l at
\* position i of s.
CaptureAt(s, i, l) ==
    LET p == SetMax(CaptureStarts(s, i + Len(l)))
    IN  SubSeq(s, p, LineEnd(s, p))

\* Some occurrence of some email label in b is followed by a valid address.
HasValidLabeledEmail(b) ==
    \E k \in 1..Len(emailPatterns) : \E l \in emailPatterns[k] :
        \E i \in 1..Len(b) :
            /\ LitAtI(b, i, l)
            /\ CaptureStarts(b, i + Len(l)) # {}
            /\ \E e \in Range(SplitRuns(CaptureAt(b, i, l), {","} \cup WS)) :
                  isValidEmail(e)

\* The first match of some email pattern captures a valid address.
FirstMatchHasValidEmail(b) ==
    \E k \in 1..Len(emailPatterns) :
        /\ LabelMatch(b, emailPatterns[k]).found
        /\ \E e \in Range(SplitRuns(LabelMatch(b, emailPatterns[k]).text,
                                    {","} \cup WS)) : isValidEmail(e)

\* The Validator, fed the Parser's facts, reports no format and no type error.
NoFormatErrorOnParserFacts ==
    feed = "parser" /\ ValidateReturned =>
        \A i \in 1..Len(result.errors) : result.errors[i].msg \in ParserErrors

\* C2 as stated: the Validator fed with the Parser's facts reports only the
\* missing-emails and the content errors, and a body with a valid labelled
\* email and a section marker is accepted.
C2_Original ==
    /\ NoFormatErrorOnParserFacts
    /\ feed = "parser" /\ ValidateReturned /\ HasValidLabeledEmail(body) /\ HasMarker(body)
           => result.isValid /\ result.errors = <<>>

\* C2 as amended: the Validator fed with the Parser's facts reports only the
\* missing-emails and the content errors, and a body in which the first match
\* of some email pattern captures a valid address and which holds a section
\* marker is accepted.
C2_ParserFactsPassFormatChecks ==
    /\ NoFormatErrorOnParserFacts
    /\ feed = "parser" /\ ValidateReturned /\ FirstMatchHasValidEmail(body) /\ HasMarker(body)
           => result.isValid /\ result.errors = <<>>

\* C2 witness: an accepted release whose facts hold two addresses and tickets.
C2_Witness ==
    /\ feed = "parser"
    /\ ValidateReturned
    /\ result.isValid
    /\ includes(env.CUSTOMER_EMAILS, <<",">>)
    /\ FirstMatchHasValidEmail(body)
    /\ HasMarker(body)

\* C3: validation runs only after parsing; a delivery step runs only when the
\* Validator's verdict is is_valid = 'true'; a rejected release fails the
\* validate step and reaches no delivery step.
C3_DeliveryOnlyIfValid ==
    /\ outcome["validate"] # "pending" => Parsed
    /\ Validated /\ feed = "parser" => HasRun("validate")
    /\ \A d \in DeliverySteps : HasRun(d) => is_valid = "true"
    /\ is_valid = "false" /\ feed = "parser" =>
           /\ outcome["validate"] = "failure"
           /\ \A d \in DeliverySteps : outcome[d] \in {"pending", "skipped"}
    /\ pc = "done" /\ is_valid = "false" /\ feed = "parser" =>
           \A d \in DeliverySteps : outcome[d] = "skipped"

\* C3 witness: a rejected release whose run has ended with both delivery
\* steps skipped.
C3_Witness ==
    /\ pc = "done"
    /\ feed = "parser"
    /\ is_valid = "false"
    /\ outcome["validate"] = "failure"
    /\ \A d \in DeliverySteps : outcome[d] = "skipped"

----------------------------------------------------------------------------
(* Properties of the Parser.                                               *)

\* The patterns of the array patterns that match b, by index.
Matching(patterns, b) ==
    {k \in 1..Len(patterns) : LabelMatch(b, patterns[k]).found}

\* The entries of text t between separators Sep, by the position they start at.
EntryStarts(t, Sep) ==
    {i \in 1..Len(t) : t[i] \notin Sep /\ (i = 1 \/ t[i - 1] \in Sep)}

EntryAt(t, Sep, i) ==
    SubSeq(t, i, SetMax({j \in i..Len(t) : \A q \in i..j : t[q] \notin Sep}))

\* The n-th smallest element of the set of numbers S.
Nth(S, n) == CHOOSE i \in S : Cardinality({j \in S : j < i}) = n - 1

\* The email patterns whose first match captures at least one valid address.
WithValidEmail(b) ==
    {k \in Matching(emailPatterns, b) :
        LET t == LabelMatch(b, emailPatterns[k]).text
        IN  \E i \in EntryStarts(t, {","} \cup WS) :
                isValidEmail(EntryAt(t, {","} \cup WS, i))}

\* The ticket patterns whose first match captures at least one valid ticket.
WithValidTicket(b) ==
    {k \in Matching(ticketPatterns, b) :
        LET t == LabelMatch(b, ticketPatterns[k]).text
        IN  \E i \in EntryStarts(t, WS) : isValidJiraTicket(EntryAt(t, WS, i))}

C6_TicketsDeduplicated ==
    ParseReturned /\ outputs.jiraTickets # <<>> =>
        LET ts == SplitChar(outputs.jiraTickets, " ")
        IN  /\ \A i, j \in 1..Len(ts) : i # j => ts[i] # ts[j]
            /\ \A i \in 1..Len(ts) : isValidJiraTicket(ts[i])

\* The first category, in the order major, minor, bugfix, documentation, with
\* a keyword in the title or in the body.
TypeByKeyword(t, b) ==
    LET has(w) == includes(toLowerCase(t), w) \/ includes(toLowerCase(b), w)
    IN  IF has(<<"m","a","j","o","r">>) THEN "major"
        ELSE IF has(<<"m","i","n","o","r">>) THEN "minor"
        ELSE IF has(<<"b","u","g">>) \/ has(<<"f","i","x">>) THEN "bugfix"
        ELSE IF has(<<"d","o","c">>) THEN "documentation"
        ELSE "update"

HasHeadingLine(t) == LitAt(t, 1, <<"#","#">>) \/ includes(t, <<"\n","#","#">>)

\* C8: the business-impact and technical-changes snippets stop before the next
\* heading line and before the next colon-label line: neither holds a heading
\* line, nor the other section's colon label.
C8_SnippetStopsAtNextSection ==
    ParseReturned =>
        /\ ~HasHeadingLine(outputs.businessImpact)
        /\ ~TestI(outputs.businessImpact, <<"t","e","c","h","n","i","c","a","l"," ","c","h","a","n","g","e","s",":">>)
        /\ ~HasHeadingLine(outputs.technicalChanges)
        /\ ~TestI(outputs.technicalChanges, <<"b","u","s","i","n","e","s","s"," ","i","m","p","a","c","t",":">>)

\* The valid addresses among the entries of the text t, in their order.
ValidEntries(t) ==
    LET Sep == {","} \cup WS
        V   == {i \in EntryStarts(t, Sep) : isValidEmail(EntryAt(t, Sep, i))}
    IN  [n \in 1..Cardinality(V) |-> EntryAt(t, Sep, Nth(V, n))]

\* The comma-separated entries of the result r.
ResultEntries(r) == IF r = <<>> THEN <<>> ELSE SplitChar(r, ",")

ScenarioText == <<"C","u","s","t","o","m","e","r"," ","E","m","a","i","l","(","s",")",":"," ","a","@","b",".","c","o","m",","," ","c","@","d",".","c","o","m">>

ScenarioEmails == <<"a","@","b",".","c","o","m",",","c","@","d",".","c","o","m">>

\* C10 as stated: a body that contains the text
\* "Customer Email(s): a@b.com, c@d.com" gives "a@b.com,c@d.com".
C10_Original ==
    ParseReturned /\ includes(body, ScenarioText) =>
        outputs.customerEmails = ScenarioEmails

\* C10 as amended: a body in which the text
\* "Customer Email(s): a@b.com, c@d.com" holds the first occurrence of the
\* label "Customer Email(s):" (in any letter case) and is followed by a line
\* feed or by the end of the body gives "a@b.com,c@d.com".
C10_ScenarioEmailsExtracted ==
    ParseReturned =>
        \A i \in 1..Len(body) :
            /\ LitAt(body, i, ScenarioText)
            /\ \A j \in 1..(i - 1) : ~LitAtI(body, j, <<"c","u","s","t","o","m","e","r"," ","e","m","a","i","l","(","s",")",":">>)
            /\ \/ i + Len(ScenarioText) = Len(body) + 1
               \/ body[i + Len(ScenarioText)] = "\n"
            => outputs.customerEmails = ScenarioEmails

\* C10 witness: the text with other text before it and a line feed after it.
C10_Witness ==
    /\ ParseReturned
    /\ \E i \in 2..Len(body) :
          /\ LitAt(body, i, ScenarioText)
          /\ \A j \in 1..(i - 1) : ~LitAtI(body, j, <<"c","u","s","t","o","m","e","r"," ","e","m","a","i","l","(","s",")",":">>)
          /\ i + Len(ScenarioText) <= Len(body)
          /\ body[i + Len(ScenarioText)] = "\n"
    /\ outputs.customerEmails = ScenarioEmails

----------------------------------------------------------------------------
(* Properties of the single checks of the Validator.                       *)

\* The errors of the verdict r whose message is one of msgs.
ErrorsOf(r, msgs) == SelectSeq(r.errors, LAMBDA x : x.msg \in msgs)

\* The positions that bound the pieces of s between the characters c.
Cuts(s, c) == {0, Len(s) + 1} \cup {i \in 1..Len(s) : s[i] = c}

PieceCount(s, c) == Cardinality(Cuts(s, c)) - 1

\* The n-th piece of s between the characters c.
Piece(s, c, n) ==
    SubSeq(s, Nth(Cuts(s, c), n) + 1, Nth(Cuts(s, c), n + 1) - 1)

EmailErrorMessages ==
    {"No customer emails found in release", "Invalid email format(s): "}

\* The comma-separated entries of s that fail the email-format check.
BadEmailEntries(s) ==
    {n \in 1..PieceCount(s, ",") : ~ValidatorIsValidEmail(trim(Piece(s, ",", n)))}

\* C11: validateCustomerEmails fails with the missing-emails error when the
\* input is empty; otherwise the input is split on commas, each entry is
\* trimmed, and the check is valid exactly when every entry passes the
\* email-format check; when some entry fails there is one error, which lists
\* exactly the failing entries in the order of the input.
C11_EmailCheckAllOrNothing ==
    ValidateReturned =>
        LET input == env.CUSTOMER_EMAILS
            errs  == ErrorsOf(result, EmailErrorMessages)
            bad   == BadEmailEntries(input)
        IN  IF input = <<>>
            THEN errs = << [msg  |-> "No customer emails found in release",
                            args |-> <<>>] >>
            ELSE IF bad = {} THEN errs = <<>>
            ELSE /\ Len(errs) = 1
                 /\ errs[1].msg = "Invalid email format(s): "
                 /\ Len(errs[1].args) = Cardinality(bad)
                 /\ \A m \in 1..Cardinality(bad) :
                       errs[1].args[m] = trim(Piece(input, ",", Nth(bad, m)))

\* C11 witness: three entries, the first valid and the other two not; the
\* check fails and its error lists the two, in their order.
C11_Witness ==
    /\ ValidateReturned
    /\ env.CUSTOMER_EMAILS = <<"a","@","b",".","c","o","m",",","b","a","d",","," ","@","x",".","y">>
    /\ ErrorsOf(result, EmailErrorMessages) =
          << [msg |-> "Invalid email format(s): ", args |-> << <<"b","a","d">>, <<"@","x",".","y">> >>] >>

TicketErrorMessages == {"Invalid Jira ticket format(s): "}

\* The space-separated tokens of s that, trimmed, fail the ticket-format check.
BadTicketTokens(s) ==
    {n \in 1..PieceCount(s, " ") :
        ~ValidatorIsValidJiraTicket(trim(Piece(s, " ", n)))}

\* The space-separated tokens of s that fail the ticket-format check as they
\* are.
BadRawTicketTokens(s) ==
    {n \in 1..PieceCount(s, " ") : ~ValidatorIsValidJiraTicket(Piece(s, " ", n))}

\* C12 as stated: for a non-empty input validateJiraTickets is valid exactly
\* when every space-separated token matches PDE-<digits>.
C12_Original ==
    ValidateReturned /\ env.JIRA_TICKETS # <<>> =>
        (ErrorsOf(result, TicketErrorMessages) = <<>>)
            = (BadRawTicketTokens(env.JIRA_TICKETS) = {})

\* C12 as amended: validateJiraTickets is valid with the warning
\* 'No Jira tickets referenced' and no error when the input is empty; for a
\* non-empty input there is no warning, and the check is valid exactly when
\* every space-separated token, with the white space around it removed,
\* matches PDE-<digits>; otherwise there is one error, which names exactly the
\* failing trimmed tokens in the order of the input.
C12_TicketCheckOnTrimmedTokens ==
    ValidateReturned =>
        LET input == env.JIRA_TICKETS
            errs  == ErrorsOf(result, TicketErrorMessages)
            bad   == BadTicketTokens(input)
        IN  IF input = <<>>
            THEN errs = <<>> /\ result.warnings = <<"No Jira tickets referenced">>
            ELSE /\ result.warnings = <<>>
                 /\ IF bad = {} THEN errs = <<>>
                    ELSE /\ Len(errs) = 1
                         /\ Len(errs[1].args) = Cardinality(bad)
                         /\ \A m \in 1..Cardinality(bad) :
                               errs[1].args[m] = trim(Piece(input, " ", Nth(bad, m)))

\* C12 witness: a token that matches PDE-<digits> only once the tab after it
\* is removed is accepted, without a warning.
C12_Witness ==
    /\ ValidateReturned
    /\ env.JIRA_TICKETS = <<"P","D","E","-","1","\t"," ","P","D","E","-","2">>
    /\ BadRawTicketTokens(env.JIRA_TICKETS) # {}
    /\ ErrorsOf(result, TicketErrorMessages) = <<>>
    /\ result.warnings = <<>>

ContentErrorMessages ==
    {"Release body is empty",
     "Release must contain either Business Impact or Technical Changes section"}

\* C13: validateReleaseContent fails with the error 'Release body is empty'
\* when the body is empty or holds white space only, fails with the
\* missing-section error when the body holds something else but none of the
\* six Business Impact and Technical Changes markers, and is valid in every
\* other case.
C13_ContentCheck ==
    ValidateReturned =>
        LET b    == env.RELEASE_BODY
            errs == ErrorsOf(result, ContentErrorMessages)
        IN  IF \A i \in 1..Len(b) : b[i] \in WS
            THEN errs = << [msg |-> "Release body is empty", args |-> <<>>] >>
            ELSE IF ~HasMarker(b)
            THEN errs = << [msg  |-> "Release must contain either Business Impact or Technical Changes section",
                            args |-> <<>>] >>
            ELSE errs = <<>>

\* C13 witness: a body of white space only is rejected as empty.
C13_Witness ==
    /\ ValidateReturned
    /\ env.RELEASE_BODY = <<" ","\n"," ">>
    /\ ErrorsOf(result, ContentErrorMessages) =
          << [msg |-> "Release body is empty", args |-> <<>>] >>

----------------------------------------------------------------------------
(* Properties of the file flag of the Parser and of the Renderer.          *)

\* parse() has just returned to a caller that goes on to the ContentProcessor.
IntegrationParsed == feed = "render" /\ pc = "new-processor"

\* process() has returned: its result is in rendered, and the facts parse()
\* returned for the same release record are in outputs.
ProcessReturned == feed = "render" /\ pc = "done"

\* The text a script reads from an environment variable of the value v.
TextOf(v) == IF v = Unset THEN <<>> ELSE v

\* c ends with lit.
EndsWith(c, lit) == LitAt(c, Len(c) - Len(lit) + 1, lit)

\* One of the four check list markers is in b with its box checked.
CheckedMarker(b) ==
    \E n \in 1..Len(fileLabels) : TestI(b, <<"[","x","]"," ">> \o toLowerCase(fileLabels[n]))

\* One of the four check list markers is in b, its box checked or not.
BoxedMarker(b) ==
    \E n \in 1..Len(fileLabels), box \in {<<"["," ","]"," ">>, <<"[","x","]"," ">>} :
        TestI(b, box \o toLowerCase(fileLabels[n]))

\* A 'Files Included:' or 'Attachments:' label is in b.
GenericFileLabel(b) == TestI(b, <<"f","i","l","e","s"," ","i","n","c","l","u","d","e","d",":">>) \/ TestI(b, <<"a","t","t","a","c","h","m","e","n","t","s",":">>)

\* C14: hasFileAttachments returns true exactly when one of the four check
\* list markers is in the body as a checked box or a 'Files Included:' or
\* 'Attachments:' label is in the body; markers that are all unchecked, with
\* no such label, give false.
C14_FilesIffCheckedOrLabelled ==
    IntegrationParsed =>
        outputs.hasFiles =
            (CheckedMarker(TextOf(body)) \/ GenericFileLabel(TextOf(body)))

NoFilesText == <<"<","p",">","N","o"," ","s","p","e","c","i","f","i","c"," ","f","i","l","e","s"," ","i","n","c","l","u","d","e","d"," ","i","n"," ","t","h","i","s"," ","r","e","l","e","a","s","e",".","<","/","p",">">>

\* C15 as stated: for a body that holds none of the four check list markers
\* hasFileAttachments returns false, the file list of the email is the
\* 'No specific files included in this release.' text and the Jira comment
\* holds 'No specific files'.
C15_Original ==
    ProcessReturned /\ ~BoxedMarker(TextOf(body)) =>
        /\ ~outputs.hasFiles
        /\ generateFileList(processor) = NoFilesText
        /\ includes(rendered.jiraComment, <<"R","e","l","e","a","s","e"," ","P","a","c","k","a","g","e",":"," ","N","o"," ","s","p","e","c","i","f","i","c"," ","f","i","l","e","s","\n">>)

\* C15 as amended: for a body that holds none of the four check list markers
\* the file list of the email is the 'No specific files included in this
\* release.' text and the Jira comment holds 'No specific files'; when the
\* body holds no 'Files Included:' and no 'Attachments:' label either,
\* hasFileAttachments returns false, and the flag and the file list agree.
C15_NoMarkerNoLabelNoFiles ==
    ProcessReturned /\ ~BoxedMarker(TextOf(body)) =>
        /\ generateFileList(processor) = NoFilesText
        /\ includes(rendered.jiraComment, <<"R","e","l","e","a","s","e"," ","P","a","c","k","a","g","e",":"," ","N","o"," ","s","p","e","c","i","f","i","c"," ","f","i","l","e","s","\n">>)
        /\ ~GenericFileLabel(TextOf(body)) => ~outputs.hasFiles

\* C15 witness: a checked box with another label is no marker; the flag is
\* false and both texts say that there are no files.
C15_Witness ==
    /\ ProcessReturned
    /\ body = <<"-"," ","[","x","]"," ","U","p","d","a","t","e","d"," ","d","r","a","w","i","n","g","s","\n">>
    /\ ~outputs.hasFiles
    /\ generateFileList(processor) = NoFilesText
    /\ includes(rendered.emailBody, NoFilesText)
    /\ includes(rendered.jiraComment, <<"R","e","l","e","a","s","e"," ","P","a","c","k","a","g","e",":"," ","N","o"," ","s","p","e","c","i","f","i","c"," ","f","i","l","e","s","\n">>)

----------------------------------------------------------------------------
(* Properties of the scripts on missing input.                             *)

\* The facts parse() returns for a release record without a body and without
\* a keyword in its title.
DefaultFacts ==
    [ customerEmails |-> <<>>, jiraTickets |-> <<>>, releaseType |-> "update",
      businessImpact |-> <<>>, technicalChanges |-> <<>>, hasFiles |-> FALSE ]

\* The verdict of validate() on an environment in which nothing is set.
EmptyVerdict ==
    [ isValid  |-> FALSE,
      errors   |-> << [msg |-> "No customer emails found in release", args |-> <<>>],
                      [msg |-> "Release type could not be determined", args |-> <<>>],
                      [msg |-> "Release body is empty", args |-> <<>>] >>,
      warnings |-> <<"No Jira tickets referenced">> ]

Missing == {Unset, <<>>}

----------------------------------------------------------------------------
(* Properties of the Renderer.                                             *)

\* The head of the "What's New" block of the email body.
WhatsNewHead ==
    <<"<","h","2"," ","c","l","a","s","s","=","\"","s","e","c","t","i","o","n","-","h","e","a","d","e","r","\"",">","W","h","a","t","'","s"," ","N","e","w","<","/","h","2",">","\n"," "," "," "," "," "," "," "," "," "," ","<","d","i","v"," ","c","l","a","s","s","=","\"","c","o","n","t","e","n","t","\"",">">>

\* The head of the "Technical Changes" block of the email body.
TechnicalChangesHead ==
    <<"<","h","2"," ","c","l","a","s","s","=","\"","s","e","c","t","i","o","n","-","h","e","a","d","e","r","\"",">","T","e","c","h","n","i","c","a","l"," ","C","h","a","n","g","e","s","<","/","h","2",">","\n"," "," "," "," "," "," "," "," "," "," ","<","d","i","v"," ","c","l","a","s","s","=","\"","c","o","n","t","e","n","t","\"",">">>

\* C17: the email body holds the "What's New" block only when the Business
\* Impact section of the body has text, and the "Technical Changes" block only
\* when the Technical Changes section has text; the text of a section is the
\* snippet parse() returns for it, which is empty for a section that is
\* absent and for one that is present without text.
C17_EmptySectionsOmitted ==
    ProcessReturned =>
        /\ includes(rendered.emailBody, WhatsNewHead)
              => outputs.businessImpact # <<>>
        /\ includes(rendered.emailBody, TechnicalChangesHead)
              => outputs.technicalChanges # <<>>

\* C18: the snippet the Renderer returns for a section is the HTML rendering
\* of the snippet the Parser returns for it, and it is the empty string
\* exactly when the snippet of the Parser is the empty string.
C18_RendererSnippetIsParserSnippet ==
    ProcessReturned =>
        /\ outputs.businessImpact # <<>> =>
              rendered.businessImpact = convertMarkdownToHtml(outputs.businessImpact)
        /\ outputs.technicalChanges # <<>> =>
              rendered.technicalChanges =
                  convertMarkdownToHtml(outputs.technicalChanges)
        /\ (rendered.businessImpact = <<>>) = (outputs.businessImpact = <<>>)
        /\ (rendered.technicalChanges = <<>>) = (outputs.technicalChanges = <<>>)

\* The positions at which lit is in c.
Occurrences(c, lit) == {i \in 1..Len(c) : LitAt(c, i, lit)}

\* The labelled lines of the Jira comment, each with the line ends in front
\* of it.
JiraLabels ==
    << <<"rocket">> \o <<" ","R","e","l","e","a","s","e","d"," ","t","o"," ","C","u","s","t","o","m","e","r",":"," ">>,
       <<"\n","\n","B","u","s","i","n","e","s","s"," ","I","m","p","a","c","t",":"," ">>,
       <<"\n","\n","T","e","c","h","n","i","c","a","l"," ","C","h","a","n","g","e","s",":"," ">>,
       <<"\n","\n">> \o <<"paperclip">> \o <<" ","R","e","l","e","a","s","e"," ","P","a","c","k","a","g","e",":"," ">>,
       <<"\n","\n">> \o <<"link">> \o <<" ","R","e","l","e","a","s","e"," ","D","e","t","a","i","l","s",":"," ">>,
       <<"\n">> \o <<"email">> \o <<" ","C","u","s","t","o","m","e","r"," ","E","m","a","i","l",":"," ","S","e","n","t"," ","t","o"," ">> >>

\* C19: the Jira comment is one string in which each of the six labelled
\* lines occurs once, in the order 'Released to Customer' (at the start, with
\* the title), 'Business Impact:', 'Technical Changes:', 'Release Package:',
\* 'Release Details:', 'Customer Email:'.  A section snippet without text is
\* rendered as 'Not specified' and one with text as that text; a body without
\* a check list marker is rendered as 'No specific files' and one with a
\* marker is not; an empty recipient list is rendered as 'No emails specified'
\* and any other as the list.
C19_JiraCommentLayout ==
    ProcessReturned =>
        LET c  == rendered.jiraComment
            b  == TextOf(body)
            at == [n \in 1..Len(JiraLabels) |-> Occurrences(c, JiraLabels[n])]
        IN  /\ \A n \in 1..Len(JiraLabels) : Cardinality(at[n]) = 1
            /\ LitAt(c, 1, JiraLabels[1] \o TextOf(title) \o JiraLabels[2])
            /\ \A n \in 1..(Len(JiraLabels) - 1) :
                  SetMin(at[n]) < SetMin(at[n + 1])
            /\ (outputs.businessImpact = <<>>)
                  = includes(c, JiraLabels[2] \o <<"N","o","t"," ","s","p","e","c","i","f","i","e","d">> \o JiraLabels[3])
            /\ (outputs.technicalChanges = <<>>)
                  = includes(c, JiraLabels[3] \o <<"N","o","t"," ","s","p","e","c","i","f","i","e","d">> \o JiraLabels[4])
            /\ outputs.businessImpact = <<"F","a","s","t","e","r"," ","b","u","i","l","d","s">>
                  => includes(c, JiraLabels[2] \o <<"F","a","s","t","e","r"," ","b","u","i","l","d","s">> \o JiraLabels[3])
            /\ (~BoxedMarker(b))
                  = includes(c, JiraLabels[4] \o <<"N","o"," ","s","p","e","c","i","f","i","c"," ","f","i","l","e","s">> \o JiraLabels[5])
            /\ IF env.CUSTOMER_EMAILS \in Missing
               THEN EndsWith(c, JiraLabels[6] \o <<"N","o"," ","e","m","a","i","l","s"," ","s","p","e","c","i","f","i","e","d">>)
               ELSE EndsWith(c, JiraLabels[6] \o env.CUSTOMER_EMAILS)

\* C19 witness: a body with text under Technical Changes, a Business Impact
\* heading without text and no file marker, rendered for two recipients.
C19_Witness ==
    /\ ProcessReturned
    /\ body = <<"#","#"," ","T","e","c","h","n","i","c","a","l"," ","C","h","a","n","g","e","s","\n","N","e","w"," ","A","P","I","\n","\n","\n","#","#"," ","B","u","s","i","n","e","s","s"," ","I","m","p","a","c","t","\n">>
    /\ title = <<"R","e","l","e","a","s","e"," ","v","2",".","0">>
    /\ env.CUSTOMER_EMAILS = <<"a","@","b",".","c","o","m",",","c","@","d",".","c","o","m">>
    /\ rendered.businessImpact # <<>>
    /\ rendered.jiraComment =
          <<"rocket">> \o <<" ","R","e","l","e","a","s","e","d"," ","t","o"," ","C","u","s","t","o","m","e","r",":"," ","R","e","l","e","a","s","e"," ","v","2",".","0","\n","\n">>
          \o <<"B","u","s","i","n","e","s","s"," ","I","m","p","a","c","t",":"," ","N","o","t"," ","s","p","e","c","i","f","i","e","d","\n","\n">>
          \o <<"T","e","c","h","n","i","c","a","l"," ","C","h","a","n","g","e","s",":"," ","N","e","w"," ","A","P","I","\n","\n">>
          \o <<"paperclip">> \o <<" ","R","e","l","e","a","s","e"," ","P","a","c","k","a","g","e",":"," ","N","o"," ","s","p","e","c","i","f","i","c"," ","f","i","l","e","s","\n","\n">>
          \o <<"link">> \o <<" ","R","e","l","e","a","s","e"," ","D","e","t","a","i","l","s",":"," ","h","t","t","p","s",":","/","/","x",".","y","/","r","/","1","\n">>
          \o <<"email">> \o <<" ","C","u","s","t","o","m","e","r"," ","E","m","a","i","l",":"," ","S","e","n","t"," ","t","o"," ","a","@","b",".","c","o","m",",","c","@","d",".","c","o","m">>

\* C20: the Jira comment process() returns holds a 'Release Date:' line.
C20_JiraCommentHasReleaseDate ==
    ProcessReturned => includes(rendered.jiraComment, <<"R","e","l","e","a","s","e"," ","D","a","t","e",":">>)

----------------------------------------------------------------------------
(* Properties of the email subject.                                        *)

\* process() has returned in a release type case.
SubjectReturned == feed = "subject" /\ pc = "done"

\* The title part the specification gives the subject of title t.
TitlePart(t) == IF Len(t) <= 50 THEN t ELSE SubSeq(t, 1, 47) \o <<".",".",".">>

\* C21: the title part of the email subject, which follows the label and
\* ": ", is the title itself when the title has at most 50 characters and
\* else its first 47 characters followed by "..."; it never has more than
\* 50 characters.
C21_TitlePartAtMostFifty ==
    SubjectReturned =>
        LET t == TextOf(title)
            label == typeLabel(processor.releaseType)
        IN  /\ Len(TitlePart(t)) <= 50
            /\ Len(t) > 50 => Len(TitlePart(t)) = 50
            /\ rendered.emailSubject = label \o <<":"," ">> \o TitlePart(t)
            /\ Len(rendered.emailSubject) <= Len(label) + 2 + 50

\* A title of more than 50 characters went through process().
C21_Witness ==
    /\ SubjectReturned
    /\ Len(TextOf(title)) > 50
    /\ EndsWith(rendered.emailSubject, <<"4","5","6","7","8","9","0","1","2","3","4","5","6","7",".",".",".">>)

\* The pair of pictograph and label the specification gives a release type.
SpecifiedLabel(releaseType) ==
    CASE releaseType = "major" -> <<"rocket">> \o <<" ","M","a","j","o","r"," ","R","e","l","e","a","s","e">>
      [] releaseType = "minor" -> <<"package">> \o <<" ","M","i","n","o","r"," ","U","p","d","a","t","e">>
      [] releaseType = "bugfix" -> <<"bug">> \o <<" ","B","u","g"," ","F","i","x">>
      [] releaseType = "documentation" -> <<"books">> \o <<" ","D","o","c","u","m","e","n","t","a","t","i","o","n"," ","U","p","d","a","t","e">>
      [] OTHER -> <<"clipboard">> \o <<" ","U","p","d","a","t","e">>

\* C22: the email subject is "<emoji> <label>: <title>", where the pair of
\* emoji and label is the one of the release type, and every release type
\* other than major, minor, bugfix and documentation, the empty string among
\* them, has the pair of "update".
C22_SubjectLabelByType ==
    SubjectReturned =>
        rendered.emailSubject =
            SpecifiedLabel(processor.releaseType) \o <<":"," ">>
            \o TitlePart(TextOf(title))

----------------------------------------------------------------------------
(* Inputs as snapshots.                                                    *)

\* C23: the inputs of an instance are a snapshot taken when it is
\* constructed: of two instances constructed under the same environment, the
\* one called after an environment variable has changed returns what the one
\* called before the change returned, from validate() as from process().
C23_InputsAreSnapshots ==
    pc = "done" =>
        /\ feed = "validator-snapshot" => result = earlier.verdict
        /\ feed = "renderer-snapshot" => rendered = earlier.content

----------------------------------------------------------------------------
(* The Renderer in the workflow.                                           *)

\* The ContentProcessor of the release record of the workflow run.
RendererOfRun ==
    ContentProcessor([ RELEASE_TITLE |-> title, RELEASE_BODY |-> body,
                       RELEASE_TYPE  |-> outputs.releaseType ])

\* C24: in a workflow run that reaches the delivery of the customer email,
\* the Renderer has run on the release record after the Validator accepted
\* it, and the subject and the body the email sender holds are the
\* emailSubject and the emailBody the Renderer returned.
C24_SenderGetsRenderedContent ==
    feed = "parser" /\ outcome["send-email"] \in {"success", "failure"} =>
        /\ outcome["validate"] = "success"
        /\ rendered # NoRendered
        /\ sender.emailSubject = generateEmailSubject(RendererOfRun)
        /\ sender.emailSubject = rendered.emailSubject
        /\ sender.emailBody = rendered.emailBody

----------------------------------------------------------------------------
(* Properties of the delivery scripts.                                     *)

\* The node process of a delivery script has ended: its main promise has
\* settled, or an unhandled rejection has ended it.
ProcessEnded == pc \in {"exited", "crashed"}

\* C25: sendCustomerEmails sends one message per recipient.  When the script
\* has ended, every entry of the comma-separated list has been attempted, so
\* that each is in exactly one of sent and failed, whatever happened to the
\* entries before it; the messages that went out are one for each entry of
\* sent, in order; sent_count + failed_count is the number of entries; and
\* with an empty list nothing is sent and the status is "skipped".
C25_OneMessagePerRecipient ==
    feed = "sender" /\ ProcessEnded =>
        LET list == TextOf(env.CUSTOMER_EMAILS)
            n    == PieceCount(list, ",")
        IN  IF list = <<>>
            THEN wire = <<>> /\ report.status = "skipped"
            ELSE /\ Len(results.sent) + Len(results.failed) = n
                 /\ report.done_count + report.failed_count = n
                 /\ Len(wire) = Len(results.sent)
                 /\ \A i \in 1..Len(wire) : wire[i].to = results.sent[i]

\* The tokens of JIRA_TICKETS that are ticket IDs, in order.
ValidTokens(list) ==
    SelectSeq([n \in 1..PieceCount(list, " ") |-> trim(Piece(list, " ", n))],
              UpdaterIsValidJiraTicket)

\* C26: updateJiraTickets posts the comment once per ticket ID: in one run
\* no ticket ID receives more than one successfully posted comment, and
\* every posted comment is the comment generated for the release of the run.
C26_OneCommentPerTicket ==
    feed = "updater" =>
        /\ \A i, j \in 1..Len(wire) : wire[i].to = wire[j].to => i = j
        /\ \A i \in 1..Len(wire) :
              wire[i].comment = UpdaterJiraComment(JiraTicketUpdater(env))

\* C27: sendEmailWithRetry and updateTicketWithRetry terminate.  The
\* operation is attempted at most 1 + maxRetries times, no attempt follows a
\* success, and once no further attempt is due the promise has been settled
\* exactly once: resolved on the first success, or rejected after attempt
\* 1 + maxRetries has failed.
C27_RetrySettlesOnce ==
    operation.promise # "none" =>
        /\ operation.attempts <= 1 + maxRetries
        /\ operation.calls <= 1
        /\ operation.promise = "rejected" => operation.attempts = 1 + maxRetries
        /\ pc # "attempt" =>
              /\ operation.calls = 1
              /\ operation.promise \in {"resolved", "rejected"}

\* C28: updateJiraTickets continues after a failure.  When the script has
\* ended, every valid ticket of the input has been processed, in order,
\* whatever happened to the tickets before it, and is in exactly one of
\* updated and failed; the tickets that received the comment are the ones
\* in updated, so a ticket whose existence check failed received none; the
\* status is "success" if failed is empty and "partial" if not; and the call
\* rejects exactly if a ticket failed.
C28_UpdaterContinuesAfterFailure ==
    feed = "updater" /\ ProcessEnded =>
        LET valid == ValidTokens(TextOf(env.JIRA_TICKETS))
        IN  valid # <<>> =>
              /\ Len(results.updated) + Len(results.failed) = Len(valid)
              /\ Len(wire) = Len(results.updated)
              /\ \A i \in 1..Len(wire) : wire[i].to = results.updated[i]
              /\ report.status = IF results.failed = <<>> THEN "success"
                                 ELSE "partial"
              /\ report.setFailed <=> results.failed # <<>>

----------------------------------------------------------------------------
(* Properties of the team notification.                                    *)

\* The three statuses the notifier holds.
HeldStatuses ==
    {notifier.emailStatus, notifier.jiraStatus, notifier.driveStatus}

\* C29: getOverallStatus aggregates the three statuses with a fixed
\* precedence: "failed" if any is "failed"; otherwise "partial" if any is
\* "partial"; otherwise "success" if any is "success"; otherwise "skipped"
\* if all three are "skipped"; otherwise "unknown".  So it is never
\* "success" when a status is "failed" or "partial".
C29_OverallStatusPrecedence ==
    pc = "notified" =>
        /\ overall = "failed" <=> "failed" \in HeldStatuses
        /\ overall = "partial" <=>
              "partial" \in HeldStatuses /\ "failed" \notin HeldStatuses
        /\ overall = "success" <=>
              /\ "success" \in HeldStatuses
              /\ HeldStatuses \cap {"failed", "partial"} = {}
        /\ overall = "skipped" <=> HeldStatuses = {"skipped"}
        /\ overall \in {"failed", "partial", "success", "skipped", "unknown"}

\* A run in which the email went out, the ticket update was partial and the
\* drive status is not set.
C29_Witness ==
    /\ pc = "notified"
    /\ env.EMAIL_STATUS = "success"
    /\ env.JIRA_STATUS = "partial"
    /\ env.DRIVE_STATUS = ""
    /\ overall = "partial"

----------------------------------------------------------------------------
(* The content check of the Validator against the snippets of the Parser   *)
(* and the blocks of the Renderer.                                         *)

\* C30: whenever validateReleaseContent accepts a body, the Parser extracts
\* a non-empty snippet from it (businessImpact or technicalChanges is not
\* empty), and the email rendered for it has a "What's New" or a
\* "Technical Changes" block.
C30_AcceptedContentHasSnippet ==
    /\ ParseReturned /\ validateReleaseContent(TextOf(body)).valid =>
          outputs.businessImpact # <<>> \/ outputs.technicalChanges # <<>>
    /\ ProcessReturned /\ validateReleaseContent(TextOf(body)).valid =>
          \/ includes(rendered.emailBody, WhatsNewHead)
          \/ includes(rendered.emailBody, TechnicalChangesHead)

====
